---------------------------- MODULE Spec2Model ----------------------------
(***************************************************************************)
(* wizdiff: the poll loop, the diff pass and the sqlite inventory store.   *)
(*                                                                         *)
(* The store (db.py) is modelled table by table; a table is the sequence   *)
(* of its rows in rowid order.  `db` is what the open connection sees      *)
(* (committed rows plus the pending transaction), `disk` is what has been  *)
(* committed.  A process that dies (uncaught exception or kill) loses the  *)
(* pending transaction: the next start sees `disk`.                        *)
(*                                                                         *)
(* update_notifier.py calls the store and the web driver as plain          *)
(* functions, while db.py and webdriver.py declare them `async` and carry  *)
(* the journal's file_offset.  The model reads every call as the body of   *)
(* the callee run to completion, and binds the journal tuple and the       *)
(* arguments of add_wad_file_info by the names the caller uses (crc, size, *)
(* compressed_size, is_compressed, revision, name, wad_name), the offset   *)
(* going to the file_offset column.                                        *)
(***************************************************************************)
EXTENDS Integers, Sequences, FiniteSets, TLC

VARIABLES
    file_exists,            \* Path("wizdiff.db").exists()
    disk,                   \* the committed tables
    db,                     \* the tables as the open connection sees them
    pc,                     \* position of the process
    exit_error,             \* exception that ended the last process ("" if none)
    delete_old_revisions,   \* UpdateNotifier.delete_old_revisions
    upstream,               \* what the patch server serves: manifest and journals
    now,                    \* datetime.utcnow(), as a counter
    revision_name,          \* update_loop / new_revision: revision
    old_revision,           \* new_revision: old_revision
    records,                \* non-meta manifest records still to be walked
    new_file_names,         \* check_if_versioned_files_changed: new_file_names
    last_revision_files,    \* rows of old_revision still to be scanned
    cur,                    \* the record whose archive is being fetched
    attempt,                \* _get_wad_journal: attempts made
    outcome,                \* _get_wad_journal: how the last attempt ended
    journal,                \* _get_wad_journal: the journal returned
    ret,                    \* where the journal fetch returns to
    emitted,                \* hook calls of the current (or last) diff pass
    announced,              \* every notify_revision_update so far, in order
    tick_kind,              \* what the current tick of update_loop found
    interrupted,            \* the pass a kill ended: its tag and what it fetched
    committed_at_start,     \* the committed tables when the pass began
    call,                   \* the store alone: the last call made on it
    committed_revisions,    \* every tag add_revision has committed so far
    malformed               \* the tag a malformed file list was sent for, and
                            \* whether the process that fetched it is the last

vars == <<file_exists, disk, db, pc, exit_error, delete_old_revisions,
          upstream, now, revision_name, old_revision, records,
          new_file_names, last_revision_files, cur, attempt, outcome,
          journal, ret, emitted, announced, tick_kind, interrupted,
          committed_at_start, call, committed_revisions, malformed>>

-----------------------------------------------------------------------------
(* Bounds of the model *)

\* revision tags the directory can advertise: "r1" .. "r<MaxTags>"
MaxTags == 2
\* diff passes started over one behaviour
MaxPasses == 2

(* Program constants *)
JOURNAL_RETRIES == 10

\* Python's None for an absent old crc / old size
None == -1
\* Python's None for an absent revision name
NoRevision == "None"

\* a variant that takes every value for a revision; C22_MissingOldRevision
\* must reject it
Falsy_Never(x) == FALSE

\* `not old_revision`
Falsy(x) == x \in {NoRevision, ""}

-----------------------------------------------------------------------------
(* Sequences *)

Range(s) == {s[i] : i \in 1..Len(s)}

-----------------------------------------------------------------------------
(* Upstream: what the patch server publishes *)

TagNames == <<"r1", "r2", "r3", "r4", "r5">>
Tags == {TagNames[i] : i \in 1..MaxTags}

META_TABLES == {"_TableList", "About"}

EndsWithWad(name) == name \in {"Root.wad", "Extra.wad"}

\* A manifest record, with the table it was parsed into.
Rec(table, name, crc, size) ==
    [table_name |-> table, SrcFileName |-> name, CRC |-> crc, Size |-> size]

\* Root.wad: absent (0), or one of two versions that differ in crc.
RootRec(v) == IF v = 0 THEN <<>>
              ELSE <<Rec("Files", "Root.wad", v, 10)>>
\* notes.txt: absent (0), or one of two versions that differ in size only.
NotesRec(v) == IF v = 0 THEN <<>>
               ELSE <<Rec("Files", "notes.txt", 5, 6 + v)>>

Manifest(w, n) ==
    <<Rec("_TableList", "Files", 0, 0)>> \o RootRec(w) \o NotesRec(n)

\* A journal entry: name -> (offset, crc, size, zsize, is_zip)
Entry(name, offset, crc, size) ==
    [name |-> name, offset |-> offset, crc |-> crc, size |-> size,
     zsize |-> size, is_zip |-> FALSE]

\* The journal of Root.wad's version v: a.txt differs between the versions
\* (crc 9, 8), b.txt is in version 1 only, c.txt is the same in both.
RootJournal(v) ==
    <<Entry("a.txt", 0, 10 - v, 4)>>
    \o (IF v = 1 THEN <<Entry("b.txt", 4, 3, 2)>> ELSE <<>>)
    \o <<Entry("c.txt", 6, 7, 1)>>

\* A manifest that lists notes.txt twice, once in each of its versions.
DuplicateContent ==
    [manifest |-> Manifest(0, 1) \o NotesRec(2),
     journals |-> [x \in {"Root.wad"} |-> <<>>]]

\* What one revision publishes: the manifest, and each archive's journal.
Contents ==
    {[manifest |-> Manifest(w, n),
      journals |-> [x \in {"Root.wad"} |-> IF w = 0 THEN <<>>
                                           ELSE RootJournal(w)]] :
        w \in 0..2, n \in 0..2}
    \cup {DuplicateContent}

\* nothing fetched yet
NoContent == [manifest |-> <<>>, journals |-> [x \in {"Root.wad"} |-> <<>>]]

\* dict.items() of the parsed manifest, the meta tables skipped
NonMeta(manifest) ==
    SelectSeq(manifest, LAMBDA r : r.table_name \notin META_TABLES)

-----------------------------------------------------------------------------
(* db.py: WizDiffDatabase.  An operation that can raise returns            *)
(* [exc |-> the exception's class or "", db |-> the tables afterwards].    *)

\* TABLE_SCRIPT on a new file: three empty tables
EmptyTables ==
    [RevisionInfo |-> <<>>, VersionedFileInfo |-> <<>>, WadFileInfo |-> <<>>]

Ok(d) == [exc |-> "", db |-> d]
Raise(e, d) == [exc |-> e, db |-> d]

\* INSERT INTO RevisionInfo; PRIMARY KEY (revision_name)
add_revision_info(d, name, date) ==
    IF \E i \in 1..Len(d.RevisionInfo) : d.RevisionInfo[i].revision_name = name
    THEN Raise("IntegrityError", d)
    ELSE Ok([d EXCEPT !.RevisionInfo =
                Append(@, [revision_name |-> name, date_ |-> date])])

delete_revision_info(d, name) ==
    [d EXCEPT !.RevisionInfo =
        SelectSeq(@, LAMBDA r : r.revision_name # name)]

\* a variant that takes the row added last; C17_LatestRevision must reject it
get_latest_revision_LastAdded(d) ==
    IF d.RevisionInfo = <<>> THEN NoRevision
    ELSE d.RevisionInfo[Len(d.RevisionInfo)].revision_name

\* SELECT revision_name FROM RevisionInfo ORDER BY date_ DESC; fetchone
get_latest_revision(d) ==
    IF d.RevisionInfo = <<>> THEN NoRevision
    ELSE LET i == CHOOSE i \in 1..Len(d.RevisionInfo) :
                    \A j \in 1..Len(d.RevisionInfo) :
                        d.RevisionInfo[j].date_ <= d.RevisionInfo[i].date_
         IN  d.RevisionInfo[i].revision_name

\* a variant that finds every revision new; C1_NoOpTick must reject it
check_if_new_revision_AlwaysNew(d, name) == TRUE

check_if_new_revision(d, name) ==
    ~ \E i \in 1..Len(d.RevisionInfo) : d.RevisionInfo[i].revision_name = name

\* a variant without the check of the name; C16_RowValidation must reject it
add_versioned_file_info_AnyName(d, crc, size, revision, name) ==
    IF size < 0 THEN Raise("ValueError", d)
    ELSE IF \E i \in 1..Len(d.VersionedFileInfo) :
                /\ d.VersionedFileInfo[i].revision = revision
                /\ d.VersionedFileInfo[i].name = name
    THEN Raise("IntegrityError", d)
    ELSE Ok([d EXCEPT !.VersionedFileInfo =
                Append(@, [crc |-> crc, size_ |-> size,
                           revision |-> revision, name |-> name])])

\* a variant that replaces the row of a primary key already stored;
\* C14_PrimaryKeys must reject it
add_versioned_file_info_Upsert(d, crc, size, revision, name) ==
    IF size < 0 THEN Raise("ValueError", d)
    ELSE IF name = "" THEN Raise("ValueError", d)
    ELSE Ok([d EXCEPT !.VersionedFileInfo =
                Append(SelectSeq(@, LAMBDA r : ~ (/\ r.revision = revision
                                                  /\ r.name = name)),
                       [crc |-> crc, size_ |-> size,
                        revision |-> revision, name |-> name])])

\* INSERT INTO VersionedFileInfo; PRIMARY KEY (revision, name)
add_versioned_file_info(d, crc, size, revision, name) ==
    IF size < 0 THEN Raise("ValueError", d)
    ELSE IF name = "" THEN Raise("ValueError", d)
    ELSE IF \E i \in 1..Len(d.VersionedFileInfo) :
                /\ d.VersionedFileInfo[i].revision = revision
                /\ d.VersionedFileInfo[i].name = name
    THEN Raise("IntegrityError", d)
    ELSE Ok([d EXCEPT !.VersionedFileInfo =
                Append(@, [crc |-> crc, size_ |-> size,
                           revision |-> revision, name |-> name])])

delete_versioned_file_infos_with_revision(d, revision) ==
    [d EXCEPT !.VersionedFileInfo =
        SelectSeq(@, LAMBDA r : r.revision # revision)]

\* a variant that compares the crc only; C8_Classification must reject it
Classify_CrcOnly(rows, new_crc, new_size) ==
    IF rows = <<>>
    THEN [res |-> "new", old_crc |-> None, old_size |-> None]
    ELSE IF rows[1].crc # new_crc
    THEN [res |-> "changed", old_crc |-> rows[1].crc, old_size |-> rows[1].size_]
    ELSE [res |-> "unchanged", old_crc |-> rows[1].crc, old_size |-> rows[1].size_]

\* -> [res, old_crc, old_size]
Classify(rows, new_crc, new_size) ==
    IF rows = <<>>
    THEN [res |-> "new", old_crc |-> None, old_size |-> None]
    ELSE IF rows[1].crc # new_crc \/ rows[1].size_ # new_size
    THEN [res |-> "changed", old_crc |-> rows[1].crc, old_size |-> rows[1].size_]
    ELSE [res |-> "unchanged", old_crc |-> rows[1].crc, old_size |-> rows[1].size_]

\* a variant that takes a stored crc of 0 for no row; C15_Classifier must
\* reject it
check_if_versioned_file_updated_ZeroAbsent(d, new_crc, new_size, revision, name) ==
    LET rows == SelectSeq(d.VersionedFileInfo,
                          LAMBDA r : r.revision = revision /\ r.name = name)
    IN  IF rows # <<>> /\ rows[1].crc = 0
        THEN Classify(<<>>, new_crc, new_size)
        ELSE Classify(rows, new_crc, new_size)

check_if_versioned_file_updated(d, new_crc, new_size, revision, name) ==
    Classify(SelectSeq(d.VersionedFileInfo,
                       LAMBDA r : r.revision = revision /\ r.name = name),
             new_crc, new_size)

get_all_versioned_files_from_revision(d, revision) ==
    SelectSeq(d.VersionedFileInfo, LAMBDA r : r.revision = revision)

\* INSERT INTO WadFileInfo; PRIMARY KEY (revision, name, wad_name)
add_wad_file_info(d, file_offset, crc, size, compressed_size, is_compressed, revision, file_name, wad_name) ==
    IF size < 0 THEN Raise("ValueError", d)
    ELSE IF file_name = "" THEN Raise("ValueError", d)
    ELSE IF wad_name = "" THEN Raise("ValueError", d)
    ELSE IF \E i \in 1..Len(d.WadFileInfo) :
                /\ d.WadFileInfo[i].revision = revision
                /\ d.WadFileInfo[i].name = file_name
                /\ d.WadFileInfo[i].wad_name = wad_name
    THEN Raise("IntegrityError", d)
    ELSE Ok([d EXCEPT !.WadFileInfo =
                Append(@, [file_offset |-> file_offset, crc |-> crc,
                           size_ |-> size,
                           compressed_size |-> compressed_size,
                           is_compressed |-> is_compressed,
                           revision |-> revision, name |-> file_name,
                           wad_name |-> wad_name])])

\* a variant that deletes no row; C12_SingleRevisionKept must reject it
delete_wad_file_infos_with_revision_KeepsRows(d, revision) == d

delete_wad_file_infos_with_revision(d, revision) ==
    [d EXCEPT !.WadFileInfo = SelectSeq(@, LAMBDA r : r.revision # revision)]

check_if_wad_file_updated(d, new_crc, new_size, revision, file_name, wad_name) ==
    Classify(SelectSeq(d.WadFileInfo,
                       LAMBDA r : /\ r.revision = revision
                                  /\ r.name = file_name
                                  /\ r.wad_name = wad_name),
             new_crc, new_size)

\* ... FROM WadFileInfo WHERE revision is (?) and name is (?), bound to
\* (revision, wad_name): the rows whose own name is the archive's name
get_all_wad_files_from_wad_name_and_revision(d, wad_name, revision) ==
    SelectSeq(d.WadFileInfo,
              LAMBDA r : r.revision = revision /\ r.name = wad_name)

-----------------------------------------------------------------------------
(* delta.py *)

\* FileDelta and its subclasses; a field a class does not have is None / <<>>
Delta(type, name, revision, url, new_crc, new_size, old_crc, old_size, deleted, created, changed) ==
    [type |-> type, name |-> name, revision |-> revision, url |-> url,
     new_crc |-> new_crc, new_size |-> new_size,
     old_crc |-> old_crc, old_size |-> old_size,
     deleted_inner_files |-> deleted, created_inner_files |-> created,
     changed_inner_files |-> changed]

\* a variant that files an entry under its own name; C25_ArchiveContainment
\* must reject it
WadInnerFileInfo_OwnName(name, wad_name, size, crc, compressed_size, is_compressed, old_size, old_crc) ==
    [name |-> name, wad_name |-> name, size |-> size, crc |-> crc,
     compressed_size |-> compressed_size, is_compressed |-> is_compressed,
     old_size |-> old_size, old_crc |-> old_crc]

WadInnerFileInfo(name, wad_name, size, crc, compressed_size, is_compressed, old_size, old_crc) ==
    [name |-> name, wad_name |-> wad_name, size |-> size, crc |-> crc,
     compressed_size |-> compressed_size, is_compressed |-> is_compressed,
     old_size |-> old_size, old_crc |-> old_crc]

\* one call of a notifier hook
Call(hook, delta) == [hook |-> hook, delta |-> delta]

RevisionCall(revision) ==
    Call("notify_revision_update",
         Delta("Revision", "", revision, <<>>, None, None, None, None,
               <<>>, <<>>, <<>>))

\* a variant that hands every delta to notify_non_wad_file_update;
\* C31_HookDispatch must reject it
FileCalls_AllPlain(delta, wad) ==
    <<Call("notify_all_file_update", delta),
      Call("notify_non_wad_file_update", delta)>>

\* notify_all_file_update(delta), then the hook of the file's kind
FileCalls(delta, wad) ==
    <<Call("notify_all_file_update", delta),
      Call(IF wad THEN "notify_wad_file_update"
                  ELSE "notify_non_wad_file_update", delta)>>

BASE_URL == "base_url"

-----------------------------------------------------------------------------
(* update_notifier.py: check_if_wad_files_updated *)

\* a variant that inserts no row for an entry the store holds unchanged;
\* C26_ArchiveDiffRouting must reject it
RECURSIVE WadLoop_SkipsUnchanged(_, _, _, _, _, _, _)
WadLoop_SkipsUnchanged(d, jrnl, wad_name, new_rev, old_rev, created, changed) ==
    IF jrnl = <<>>
    THEN [exc |-> "", db |-> d, created |-> created, changed |-> changed]
    ELSE LET e    == Head(jrnl)
             cls  == check_if_wad_file_updated(d, e.crc, e.size, old_rev,
                                               e.name, wad_name)
             info == WadInnerFileInfo(e.name, wad_name, e.size, e.crc,
                                      e.zsize, e.is_zip,
                                      cls.old_size, cls.old_crc)
             ins  == add_wad_file_info(d, e.offset, e.crc, e.size, e.zsize,
                                       e.is_zip, new_rev, e.name, wad_name)
         IN  IF ins.exc # ""
             THEN [exc |-> ins.exc, db |-> d,
                   created |-> created, changed |-> changed]
             ELSE WadLoop_SkipsUnchanged(
                      IF cls.res = "unchanged" THEN d ELSE ins.db,
                      Tail(jrnl), wad_name, new_rev, old_rev,
                      IF cls.res = "new"
                        THEN Append(created, info) ELSE created,
                      IF cls.res = "changed"
                        THEN Append(changed, info) ELSE changed)

\* the loop over journal_crcs.items(): -> [exc, db, created, changed]
RECURSIVE WadLoop(_, _, _, _, _, _, _)
WadLoop(d, jrnl, wad_name, new_rev, old_rev, created, changed) ==
    IF jrnl = <<>>
    THEN [exc |-> "", db |-> d, created |-> created, changed |-> changed]
    ELSE LET e    == Head(jrnl)
             cls  == check_if_wad_file_updated(d, e.crc, e.size, old_rev,
                                               e.name, wad_name)
             info == WadInnerFileInfo(e.name, wad_name, e.size, e.crc,
                                      e.zsize, e.is_zip,
                                      cls.old_size, cls.old_crc)
             ins  == add_wad_file_info(d, e.offset, e.crc, e.size, e.zsize,
                                       e.is_zip, new_rev, e.name, wad_name)
         IN  IF ins.exc # ""
             THEN [exc |-> ins.exc, db |-> d,
                   created |-> created, changed |-> changed]
             ELSE WadLoop(ins.db, Tail(jrnl), wad_name, new_rev, old_rev,
                          IF cls.res = "new"
                            THEN Append(created, info) ELSE created,
                          IF cls.res = "changed"
                            THEN Append(changed, info) ELSE changed)

\* `inner_file not in journal_crcs.keys()`: inner_file is a row (a tuple),
\* the keys are names (str); a tuple equals no str
RowNotInKeys(row, jrnl) == TRUE

\* rows of the old revision turned into deleted entries
DeletedInnerFiles(rows, wad_name) ==
    [i \in 1..Len(rows) |->
        WadInnerFileInfo(rows[i].name, wad_name, 0, 0,
                         rows[i].compressed_size, rows[i].is_compressed,
                         rows[i].size_, rows[i].crc)]

\* -> [exc, db, deleted, created, changed]
check_if_wad_files_updated(d, jrnl, wad_name, new_rev, old_rev) ==
    LET loop == WadLoop(d, jrnl, wad_name, new_rev, old_rev, <<>>, <<>>)
        old  == SelectSeq(
                    get_all_wad_files_from_wad_name_and_revision(
                        d, wad_name, old_rev),
                    LAMBDA row : RowNotInKeys(row, jrnl))
    IN  [exc |-> loop.exc, db |-> loop.db,
         deleted |-> IF loop.exc = "" THEN DeletedInnerFiles(old, wad_name)
                     ELSE <<>>,
         created |-> loop.created, changed |-> loop.changed]

\* _fill_db: the loop over journal_crcs.items(): -> [exc, db]
RECURSIVE FillWadLoop(_, _, _, _)
FillWadLoop(d, jrnl, wad_name, revision) ==
    IF jrnl = <<>> THEN Ok(d)
    ELSE LET e   == Head(jrnl)
             ins == add_wad_file_info(d, e.offset, e.crc, e.size, e.zsize,
                                      e.is_zip, revision, e.name, wad_name)
         IN  IF ins.exc # "" THEN ins
             ELSE FillWadLoop(ins.db, Tail(jrnl), wad_name, revision)

-----------------------------------------------------------------------------
(* dml_parser.py: consume_data over the structures of a file list.  A      *)
(* structure is read as its marker byte, its type byte (1: the template of *)
(* a table, 2: a record of the current table) and what its data holds: the *)
(* table and the field names of a template, the values of a record.        *)

TEMPLATE == 1
RECORD == 2
MARKER == 2

Structure(marker, type, table, fields, values) ==
    [marker |-> marker, type |-> type, table |-> table,
     fields |-> fields, values |-> values]

\* the fields of the template a server writes for a table of files
ListedFields == <<"SrcFileName", "CRC", "Size">>

\* the structures a server writes for a manifest: the template of a table
\* ahead of the table's first record
RECURSIVE Frames(_, _)
Frames(manifest, current) ==
    IF manifest = <<>> THEN <<>>
    ELSE LET r == Head(manifest)
         IN  (IF r.table_name = current THEN <<>>
              ELSE <<Structure(MARKER, TEMPLATE, r.table_name, ListedFields,
                               <<>>)>>)
             \o <<Structure(MARKER, RECORD, "", <<>>,
                            <<r.SrcFileName, r.CRC, r.Size>>)>>
             \o Frames(Tail(manifest), r.table_name)

\* the structures with the marker byte of the k-th set to m
WithMarker(frames, k, m) == [frames EXCEPT ![k].marker = m]

\* the file lists a server may send for a content: the one it wrote, and
\* those with one structure whose marker byte is 0x03
Bodies(content) ==
    LET frames == Frames(content.manifest, "")
    IN  {frames} \cup {WithMarker(frames, k, 3) : k \in 1..Len(frames)}

IsMalformed(body) == \E k \in 1..Len(body) : body[k].marker # MARKER

NotMalformed == [tag |-> NoRevision, live |-> FALSE]

\* records.items(): the tables in the order of their first record
RECURSIVE GroupedByTable(_)
GroupedByTable(parsed) ==
    IF parsed = <<>> THEN <<>>
    ELSE LET t == Head(parsed).table_name
         IN  SelectSeq(parsed, LAMBDA r : r.table_name = t)
             \o GroupedByTable(SelectSeq(parsed,
                                         LAMBDA r : r.table_name # t))

\* parse_record, lines 129-147: one value per field of the template, in the
\* template's order; the reader raises when the data runs out
parse_record(values, record_template) ==
    IF Len(values) < Len(record_template)
    THEN [exc |-> "RuntimeError", record |-> <<>>]
    ELSE [exc |-> "",
          record |-> [name \in Range(record_template) |->
                         values[CHOOSE n \in 1..Len(record_template) :
                                    record_template[n] = name]]]

\* a variant that does not look at the marker byte; C23_MalformedManifest
\* must reject it
RECURSIVE consume_data_AnyMarker(_, _, _, _)
consume_data_AnyMarker(frames, current_record_name, current_record_template, parsed) ==
    IF frames = <<>>
    THEN [exc |-> "", records |-> GroupedByTable(parsed)]
    ELSE LET f == Head(frames)
         IN  IF f.type = TEMPLATE
             THEN consume_data_AnyMarker(Tail(frames), f.table, f.fields,
                                         parsed)
             ELSE IF f.type = RECORD
             THEN LET rec == parse_record(f.values, current_record_template)
                  IN  IF current_record_template = <<>> \/ rec.exc # ""
                      THEN [exc |-> "RuntimeError", records |-> <<>>]
                      ELSE consume_data_AnyMarker(
                               Tail(frames), current_record_name,
                               current_record_template,
                               Append(parsed,
                                      [table_name |-> current_record_name,
                                       record |-> rec.record]))
             ELSE [exc |-> "RuntimeError", records |-> <<>>]

\* consume_data, lines 150-193: -> [exc, records].  The template is the
\* sequence of its field names; <<>> stands for None and for the empty dict,
\* which `not current_record_template` does not tell apart.
RECURSIVE consume_data(_, _, _, _)
consume_data(frames, current_record_name, current_record_template, parsed) ==
    IF frames = <<>>
    THEN [exc |-> "", records |-> GroupedByTable(parsed)]
    ELSE LET f == Head(frames)
         IN  IF f.marker # MARKER
             THEN [exc |-> "RuntimeError", records |-> <<>>]
             ELSE IF f.type = TEMPLATE
             THEN consume_data(Tail(frames), f.table, f.fields, parsed)
             ELSE IF f.type = RECORD
             THEN LET rec == parse_record(f.values, current_record_template)
                  IN  IF current_record_template = <<>> \/ rec.exc # ""
                      THEN [exc |-> "RuntimeError", records |-> <<>>]
                      ELSE consume_data(
                               Tail(frames), current_record_name,
                               current_record_template,
                               Append(parsed,
                                      [table_name |-> current_record_name,
                                       record |-> rec.record]))
             ELSE [exc |-> "RuntimeError", records |-> <<>>]

\* parse_records_from_bytes
parse_records_from_bytes(frames) == consume_data(frames, "", <<>>, <<>>)

\* record["SrcFileName"], record["CRC"], record["Size"] of the records of
\* the tables of files
FileRecords(parsed) ==
    [n \in 1..Len(parsed) |->
        Rec(parsed[n].table_name, parsed[n].record["SrcFileName"],
            parsed[n].record["CRC"], parsed[n].record["Size"])]

-----------------------------------------------------------------------------
(* The process *)

NoRecord == Rec("", "", 0, 0)

\* no call made on the store yet
NoCall == [op |-> "", n |-> 0]

\* no pass of the process was ended by a kill
NotInterrupted == [tag |-> NoRevision, content |-> NoContent]

\* the names of a pass, as a process that is not in a pass holds them
PassCleared ==
    /\ records' = <<>>
    /\ new_file_names' = <<>>
    /\ last_revision_files' = <<>>
    /\ cur' = NoRecord
    /\ journal' = <<>>
    /\ ret' = ""

\* no journal fetch under way
NoFetch ==
    /\ attempt' = 0
    /\ outcome' = ""

LocalsCleared == PassCleared /\ NoFetch

LocalsUnchanged ==
    UNCHANGED <<records, new_file_names, last_revision_files, cur, attempt,
                outcome, journal, ret>>

\* An exception nothing catches, or a kill: the process ends, and with it
\* the connection and its pending transaction.  `committed` is what the
\* step had committed before it ended.
Ends(e, committed) ==
    /\ pc' = "off"
    /\ exit_error' = e
    /\ disk' = committed
    /\ db' = committed
    /\ PassCleared

Die(e, committed) == Ends(e, committed) /\ NoFetch

\* The tags the process has met: those it announced and those in its tables.
SeenTags ==
    Range(announced)
    \cup {db.RevisionInfo[i].revision_name : i \in 1..Len(db.RevisionInfo)}
    \cup {db.VersionedFileInfo[i].revision : i \in 1..Len(db.VersionedFileInfo)}
    \cup {db.WadFileInfo[i].revision : i \in 1..Len(db.WadFileInfo)}

\* The directory advertises a tag the process has met, or a fresh one; fresh
\* tags are named in the order the process meets them.
Advertised(tag) ==
    \/ tag \in SeenTags
    \/ \E i \in 1..MaxTags :
         /\ tag = TagNames[i]
         /\ tag \notin SeenTags
         /\ \A j \in 1..(i - 1) : TagNames[j] \in SeenTags

\* __main__.py: main
Start ==
    /\ pc = "off"
    /\ pc' = IF file_exists THEN "update_loop" ELSE "init_db"
    /\ exit_error' = ""
    /\ db' = disk
    /\ revision_name' = NoRevision
    /\ old_revision' = NoRevision
    /\ tick_kind' = ""
    /\ emitted' = <<>>
    /\ committed_at_start' = disk
    /\ LocalsCleared
    /\ upstream' = NoContent
    /\ malformed' = [malformed EXCEPT !.live = FALSE]
    /\ UNCHANGED <<call, committed_revisions,
                   file_exists, disk, delete_old_revisions, now,
                   announced, interrupted>>

\* init_db up to add_revision: init_database, get_patch_urls,
\* get_revision_from_url, add_revision (which commits)
InitDb ==
    /\ pc = "init_db"
    /\ file_exists' = TRUE
    /\ \/ /\ \E e \in {"OSError", "ValueError"} : Die(e, EmptyTables)
          /\ UNCHANGED <<now, revision_name, committed_revisions>>
       \/ \E tag \in Tags :
            /\ Advertised(tag)
            /\ LET add == add_revision_info(EmptyTables, tag, now)
               IN  /\ disk' = add.db
                   /\ db' = add.db
            /\ now' = now + 1
            /\ revision_name' = tag
            /\ committed_revisions' = committed_revisions \cup {tag}
            /\ pc' = "fill_db"
            /\ UNCHANGED exit_error
            /\ LocalsUnchanged
    /\ UNCHANGED <<call, malformed, delete_old_revisions, upstream,
                   old_revision,
                   emitted, announced, tick_kind, interrupted,
                   committed_at_start>>

\* get_file_list_records: the download (get_url_data) raises
GetFileListRecordsFails == Die("ClientError", disk)

\* get_file_list_records: the parse of the file list that was downloaded
get_file_list_records(body) == parse_records_from_bytes(body)

\* _fill_db, line 61
FillFetch ==
    /\ pc = "fill_db"
    /\ \/ GetFileListRecordsFails /\ UNCHANGED upstream
       \/ \E content \in Contents : \E body \in Bodies(content) :
            LET parsed == get_file_list_records(body)
            IN  IF parsed.exc # ""
                THEN Die(parsed.exc, disk) /\ UNCHANGED upstream
                ELSE /\ upstream' = content
                     /\ records' = FileRecords(NonMeta(parsed.records))
                     /\ pc' = "fill"
                     /\ UNCHANGED <<disk, db, exit_error, new_file_names,
                                    last_revision_files, cur, attempt,
                                    outcome, journal, ret>>
    /\ UNCHANGED <<call, committed_revisions, malformed,
                   file_exists, delete_old_revisions, now,
                   revision_name, old_revision, emitted, announced,
                   tick_kind, interrupted, committed_at_start>>

\* _fill_db, lines 68-79: one record, up to the journal fetch of an archive
FillRecord ==
    /\ pc = "fill"
    /\ records # <<>>
    /\ LET r   == Head(records)
           ins == add_versioned_file_info(db, r.CRC, r.Size, revision_name,
                                          r.SrcFileName)
       IN  IF ins.exc # ""
           THEN Die(ins.exc, disk)
           ELSE /\ db' = ins.db
                /\ IF EndsWithWad(r.SrcFileName)
                   THEN /\ pc' = "journal"
                        /\ ret' = "fill_wad"
                        /\ cur' = r
                        /\ NoFetch
                        /\ UNCHANGED records
                   ELSE /\ records' = Tail(records)
                        /\ UNCHANGED <<pc, ret, cur, attempt, outcome>>
                /\ UNCHANGED <<disk, exit_error, new_file_names,
                               last_revision_files, journal>>
    /\ UNCHANGED <<call, committed_revisions, malformed,
                   file_exists, delete_old_revisions, upstream, now,
                   revision_name, old_revision, emitted, announced,
                   tick_kind, interrupted, committed_at_start>>

\* _fill_db, lines 81-92: the archive's inner files
FillWad ==
    /\ pc = "fill_wad"
    /\ LET ins == FillWadLoop(db, journal, cur.SrcFileName, revision_name)
       IN  IF ins.exc # ""
           THEN Die(ins.exc, disk)
           ELSE /\ db' = ins.db
                /\ records' = Tail(records)
                /\ pc' = "fill"
                /\ UNCHANGED <<disk, exit_error, new_file_names,
                               last_revision_files, cur, attempt, outcome,
                               journal, ret>>
    /\ UNCHANGED <<call, committed_revisions, malformed,
                   file_exists, delete_old_revisions, upstream, now,
                   revision_name, old_revision, emitted, announced,
                   tick_kind, interrupted, committed_at_start>>

\* _fill_db, line 94
FillCommit ==
    /\ pc = "fill"
    /\ records = <<>>
    /\ disk' = db
    /\ pc' = "update_loop"
    /\ revision_name' = NoRevision
    /\ upstream' = NoContent
    /\ committed_at_start' = db
    /\ LocalsCleared
    /\ UNCHANGED <<call, committed_revisions, malformed,
                   file_exists, db, exit_error, delete_old_revisions, now,
                   old_revision, emitted, announced, tick_kind,
                   interrupted>>

-----------------------------------------------------------------------------
(* webdriver.py: get_wad_journal_crcs, and _get_wad_journal around it *)

\* what the server answers to GET <wad_url>.hdr.gz
Responses ==
    {"journal_gz", "journal_raw", "http_error", "bad_gzip", "no_connection"}

\* get_url_data does not look at the status, and BadGzipFile is passed over:
\* a body that is no journal fails the signature check
get_wad_journal_crcs(response) ==
    CASE response = "journal_gz"    -> "ok"
      [] response = "journal_raw"   -> "ok"
      [] response = "http_error"    -> "RuntimeError"
      [] response = "bad_gzip"      -> "RuntimeError"
      [] response = "no_connection" -> "ClientError"

WebDriverOutcomes == {get_wad_journal_crcs(r) : r \in Responses}

\* the exceptions _get_wad_journal catches and retries on
Retried == {"HTTPError", "BadGzipFile"}

\* a variant that makes one attempt more; C10_RetryBound must reject it
JournalAttempt_OneMore(outcomes) ==
    /\ pc = "journal"
    /\ IF attempt > JOURNAL_RETRIES
       THEN Ends("ValueError", disk) /\ UNCHANGED <<attempt, outcome>>
       ELSE \E o \in outcomes :
              /\ attempt' = attempt + 1
              /\ outcome' = o
              /\ IF o = "ok"
                 THEN /\ journal' = upstream.journals[cur.SrcFileName]
                      /\ pc' = ret
                      /\ UNCHANGED <<disk, db, exit_error, records,
                                     new_file_names, last_revision_files,
                                     cur, ret>>
                 ELSE IF o \in Retried
                 THEN UNCHANGED <<disk, db, exit_error, records,
                                  new_file_names, last_revision_files, cur,
                                  ret, journal, pc>>
                 ELSE Ends(o, disk)
    /\ UNCHANGED <<call, committed_revisions, malformed,
                   file_exists, delete_old_revisions, upstream, now,
                   revision_name, old_revision, emitted, announced,
                   tick_kind, interrupted, committed_at_start>>

\* _get_wad_journal: one turn of `for _ in range(JOURNAL_RETRIES)`, or the
\* raise after the loop.  `outcomes` is what the callee can do.
JournalAttempt(outcomes) ==
    /\ pc = "journal"
    /\ IF attempt >= JOURNAL_RETRIES
       THEN Ends("ValueError", disk) /\ UNCHANGED <<attempt, outcome>>
       ELSE \E o \in outcomes :
              /\ attempt' = attempt + 1
              /\ outcome' = o
              /\ IF o = "ok"
                 THEN /\ journal' = upstream.journals[cur.SrcFileName]
                      /\ pc' = ret
                      /\ UNCHANGED <<disk, db, exit_error, records,
                                     new_file_names, last_revision_files,
                                     cur, ret>>
                 ELSE IF o \in Retried
                 THEN UNCHANGED <<disk, db, exit_error, records,
                                  new_file_names, last_revision_files, cur,
                                  ret, journal, pc>>
                 ELSE Ends(o, disk)
    /\ UNCHANGED <<call, committed_revisions, malformed,
                   file_exists, delete_old_revisions, upstream, now,
                   revision_name, old_revision, emitted, announced,
                   tick_kind, interrupted, committed_at_start>>

-----------------------------------------------------------------------------
(* update_notifier.py: update_loop, new_revision and the diff pass *)

\* a hook of the notifier returns, or raises in the first or the second call
HookOutcomes == {"ok", "first", "second"}

\* a variant that puts the calls of a file ahead of the earlier ones;
\* C6_EmissionOrder must reject it
Emitted_Ahead(delta, wad, h) ==
    CASE h = "ok"     -> FileCalls(delta, wad) \o emitted
      [] h = "first"  -> emitted
      [] h = "second" -> <<FileCalls(delta, wad)[1]>> \o emitted

\* notify_all_file_update(delta); notify_[non_]wad_file_update(delta)
Emitted(delta, wad, h) ==
    CASE h = "ok"     -> emitted \o FileCalls(delta, wad)
      [] h = "first"  -> emitted
      [] h = "second" -> Append(emitted, FileCalls(delta, wad)[1])

\* update_loop, lines 98-99: get_patch_urls or get_revision_from_url raises
TickFail ==
    /\ pc = "update_loop"
    /\ \E e \in {"OSError", "ValueError"} : Die(e, disk)
    /\ tick_kind' = "failed"
    /\ UNCHANGED <<call, committed_revisions, malformed,
                   file_exists, delete_old_revisions, upstream, now,
                   revision_name, old_revision, emitted, announced,
                   interrupted, committed_at_start>>

\* update_loop, lines 98-108 with a revision the store has: sleep
TickNoOp ==
    /\ pc = "update_loop"
    /\ \E tag \in Tags :
         /\ ~ check_if_new_revision(db, tag)
         /\ revision_name' = tag
    /\ tick_kind' = "noop"
    /\ committed_at_start' = disk
    /\ pc' = "sleep"
    /\ UNCHANGED <<call, committed_revisions, malformed,
                   file_exists, disk, db, exit_error, delete_old_revisions,
                   upstream, now, old_revision, emitted, announced,
                   interrupted>>
    /\ LocalsUnchanged

\* update_loop, lines 98-102, and new_revision, lines 125-128
TickNewRevision ==
    /\ pc = "update_loop"
    /\ Len(announced) < MaxPasses
    /\ \E tag \in Tags :
         /\ Advertised(tag)
         /\ check_if_new_revision(db, tag)
         /\ revision_name' = tag
         /\ interrupted' = IF tag = interrupted.tag THEN interrupted
                                                     ELSE NotInterrupted
    /\ tick_kind' = "new"
    /\ committed_at_start' = disk
    /\ \/ /\ Die("HookError", disk)
          /\ emitted' = <<>>
          /\ UNCHANGED <<announced, old_revision>>
       \/ /\ emitted' = <<RevisionCall(revision_name')>>
          /\ announced' = Append(announced, revision_name')
          /\ old_revision' = get_latest_revision(db)
          /\ pc' = "check_files"
          /\ UNCHANGED <<disk, db, exit_error>>
          /\ LocalsUnchanged
    /\ UNCHANGED <<call, committed_revisions, malformed,
                   file_exists, delete_old_revisions, upstream, now>>

\* check_if_versioned_files_changed, lines 146-155
CheckFiles ==
    /\ pc = "check_files"
    /\ \/ GetFileListRecordsFails /\ UNCHANGED <<upstream, interrupted,
                                                    malformed>>
       \/ \E content \in Contents : \E body \in Bodies(content) :
            LET parsed == get_file_list_records(body)
            IN  /\ malformed' = IF IsMalformed(body)
                                THEN [tag |-> revision_name, live |-> TRUE]
                                ELSE malformed
                /\ IF parsed.exc # ""
                   THEN Die(parsed.exc, disk)
                        /\ UNCHANGED <<upstream, interrupted>>
                   ELSE /\ upstream' = content
                        /\ interrupted' = IF content = interrupted.content
                                           THEN interrupted
                                           ELSE NotInterrupted
                        /\ IF Falsy(old_revision)
                           THEN Die("ValueError", disk)
                           ELSE /\ last_revision_files' =
                                    get_all_versioned_files_from_revision(
                                        db, old_revision)
                                /\ new_file_names' = <<>>
                                /\ records' =
                                    FileRecords(NonMeta(parsed.records))
                                /\ pc' = "diff"
                                /\ UNCHANGED <<disk, db, exit_error, cur,
                                               attempt, outcome, journal, ret>>
    /\ UNCHANGED <<call, committed_revisions,
                   file_exists, delete_old_revisions, now,
                   revision_name, old_revision, emitted, announced,
                   tick_kind, committed_at_start>>

FileUrl(name) == <<BASE_URL, "/", name>>

\* lines 202-210 and 244-252
PlainDelta(r, cls) ==
    Delta(IF cls.res = "changed" THEN "ChangedFileDelta"
                                 ELSE "CreatedFileDelta",
          r.SrcFileName, revision_name, FileUrl(r.SrcFileName),
          r.CRC, r.Size, cls.old_crc, cls.old_size, <<>>, <<>>, <<>>)

\* lines 185-196 and 229-238
WadDelta(r, cls, w) ==
    IF cls.res = "changed"
    THEN Delta("ChangedWadfileDelta", r.SrcFileName, revision_name,
               FileUrl(r.SrcFileName), r.CRC, r.Size,
               cls.old_crc, cls.old_size, w.deleted, w.created, w.changed)
    ELSE Delta("CreatedWadFileDelta", r.SrcFileName, revision_name,
               FileUrl(r.SrcFileName), r.CRC, r.Size,
               cls.old_crc, cls.old_size, <<>>, w.created, <<>>)

\* a variant that adds no row for a record the store holds unchanged under
\* the old revision; C20_CompleteInventory must reject it
InsertVersioned_ChangedOnly(d, r, h) ==
    IF h # "ok" THEN Die("HookError", disk)
    ELSE LET ins == add_versioned_file_info(d, r.CRC, r.Size, revision_name,
                                            r.SrcFileName)
             cls == check_if_versioned_file_updated(d, r.CRC, r.Size,
                                                    old_revision, r.SrcFileName)
         IN  IF ins.exc # ""
             THEN Die(ins.exc, disk)
             ELSE /\ db' = IF cls.res = "unchanged" THEN d ELSE ins.db
                  /\ records' = Tail(records)
                  /\ pc' = "diff"
                  /\ UNCHANGED <<disk, exit_error, last_revision_files,
                                 cur, attempt, outcome, journal, ret>>

\* lines 260-263, after the hooks of the record returned `h`
InsertVersioned(d, r, h) ==
    IF h # "ok" THEN Die("HookError", disk)
    ELSE LET ins == add_versioned_file_info(d, r.CRC, r.Size, revision_name,
                                            r.SrcFileName)
         IN  IF ins.exc # ""
             THEN Die(ins.exc, disk)
             ELSE /\ db' = ins.db
                  /\ records' = Tail(records)
                  /\ pc' = "diff"
                  /\ UNCHANGED <<disk, exit_error, last_revision_files,
                                 cur, attempt, outcome, journal, ret>>

\* lines 162-263 for one record: a file that is no archive, an unchanged
\* file, or an archive up to its journal fetch
DiffRecord ==
    /\ pc = "diff"
    /\ records # <<>>
    /\ LET r   == Head(records)
           cls == check_if_versioned_file_updated(db, r.CRC, r.Size,
                                                  old_revision, r.SrcFileName)
       IN  IF cls.res # "unchanged" /\ EndsWithWad(r.SrcFileName)
           THEN /\ new_file_names' = Append(new_file_names, r.SrcFileName)
                /\ pc' = "journal"
                /\ ret' = "diff_wad"
                /\ cur' = r
                /\ NoFetch
                /\ UNCHANGED <<disk, db, exit_error, records,
                               last_revision_files, journal, emitted>>
           ELSE IF cls.res = "unchanged"
           THEN /\ InsertVersioned(db, r, "ok")
                /\ pc' = "diff" =>
                      new_file_names' = Append(new_file_names, r.SrcFileName)
                /\ UNCHANGED emitted
           ELSE \E h \in HookOutcomes :
                  /\ emitted' = Emitted(PlainDelta(r, cls), FALSE, h)
                  /\ InsertVersioned(db, r, h)
                  /\ pc' = "diff" =>
                        new_file_names' = Append(new_file_names, r.SrcFileName)
    /\ UNCHANGED <<call, committed_revisions, malformed,
                   file_exists, delete_old_revisions, upstream, now,
                   revision_name, old_revision, announced, tick_kind, interrupted,
                   committed_at_start>>

\* lines 176-199 / 215-241 and 260-263 for an archive whose journal is in
DiffWad ==
    /\ pc = "diff_wad"
    /\ LET r   == cur
           cls == check_if_versioned_file_updated(db, r.CRC, r.Size,
                                                  old_revision, r.SrcFileName)
           w   == check_if_wad_files_updated(db, journal, r.SrcFileName,
                                             revision_name, old_revision)
       IN  IF w.exc # ""
           THEN Die(w.exc, disk) /\ UNCHANGED emitted
           ELSE IF cls.res = "new" /\ (w.deleted # <<>> \/ w.changed # <<>>)
           THEN Die("RuntimeError", disk) /\ UNCHANGED emitted
           ELSE \E h \in HookOutcomes :
                  /\ emitted' = Emitted(WadDelta(r, cls, w), TRUE, h)
                  /\ InsertVersioned(w.db, r, h)
                  /\ pc' = "diff" => UNCHANGED new_file_names
    /\ UNCHANGED <<call, committed_revisions, malformed,
                   file_exists, delete_old_revisions, upstream, now,
                   revision_name, old_revision, announced, tick_kind, interrupted,
                   committed_at_start>>

\* a variant that records the revision with the commit of line 265, ahead
\* of the deletion scan; C7_DeltasBeforeRevision must reject it
DiffCommit_AddsRevision ==
    /\ pc = "diff"
    /\ records = <<>>
    /\ db' = add_revision_info(db, revision_name, now).db
    /\ disk' = db'
    /\ pc' = "deleted"
    /\ UNCHANGED <<call, committed_revisions, malformed,
                   file_exists, exit_error, delete_old_revisions,
                   upstream, now, revision_name, old_revision, records,
                   new_file_names, last_revision_files, cur, attempt,
                   outcome, journal, ret, emitted, announced, tick_kind,
                   interrupted, committed_at_start>>

\* line 265
DiffCommit ==
    /\ pc = "diff"
    /\ records = <<>>
    /\ disk' = db
    /\ pc' = "deleted"
    /\ UNCHANGED <<call, committed_revisions, malformed,
                   file_exists, db, exit_error, delete_old_revisions,
                   upstream, now, revision_name, old_revision, records,
                   new_file_names, last_revision_files, cur, attempt,
                   outcome, journal, ret, emitted, announced, tick_kind,
                   interrupted, committed_at_start>>

\* lines 270-294 and 300-306; `revision` is the row's own revision
DeletedDelta(row) ==
    IF EndsWithWad(row.name)
    THEN Delta("DeletedWadFileDelta", row.name, row.revision,
               <<BASE_URL, row.name>>, None, None, row.crc, row.size_,
               DeletedInnerFiles(
                   get_all_wad_files_from_wad_name_and_revision(
                       db, row.name, old_revision),
                   row.name),
               <<>>, <<>>)
    ELSE Delta("DeletedFileDelta", row.name, row.revision,
               <<BASE_URL, row.name>>, None, None, row.crc, row.size_,
               <<>>, <<>>, <<>>)

\* a variant that takes the files of the manifest for the missing ones;
\* C9_SymmetricDeletion must reject it
InNewFileNames_Inverted(name) == name \notin Range(new_file_names)

\* line 268: `file_name not in new_file_names`, negated
InNewFileNames(name) == name \in Range(new_file_names)

\* lines 267-309 for one row of the old revision
DeletedScan ==
    /\ pc = "deleted"
    /\ last_revision_files # <<>>
    /\ LET row == Head(last_revision_files)
       IN  IF InNewFileNames(row.name)
           THEN /\ last_revision_files' = Tail(last_revision_files)
                /\ UNCHANGED <<disk, db, pc, exit_error, records,
                               new_file_names, cur, attempt, outcome,
                               journal, ret, emitted>>
           ELSE \E h \in HookOutcomes :
                  /\ emitted' = Emitted(DeletedDelta(row),
                                        EndsWithWad(row.name), h)
                  /\ IF h # "ok" THEN Die("HookError", disk)
                     ELSE /\ last_revision_files' = Tail(last_revision_files)
                          /\ UNCHANGED <<disk, db, pc, exit_error, records,
                                         new_file_names, cur, attempt,
                                         outcome, journal, ret>>
    /\ UNCHANGED <<call, committed_revisions, malformed,
                   file_exists, delete_old_revisions, upstream, now,
                   revision_name, old_revision, announced, tick_kind, interrupted,
                   committed_at_start>>

\* new_revision, lines 133-134: add_revision, which commits
AddRevision ==
    /\ pc = "deleted"
    /\ last_revision_files = <<>>
    /\ LET add == add_revision_info(db, revision_name, now)
       IN  IF add.exc # ""
           THEN Die(add.exc, disk) /\ UNCHANGED <<now, committed_revisions>>
           ELSE /\ db' = add.db
                /\ disk' = add.db
                /\ now' = now + 1
                /\ committed_revisions' =
                     committed_revisions \cup {revision_name}
                /\ pc' = IF delete_old_revisions THEN "remove_revision"
                                                 ELSE "sleep"
                /\ UNCHANGED exit_error
                /\ LocalsUnchanged
    /\ UNCHANGED <<call, malformed, file_exists, delete_old_revisions,
                   upstream,
                   revision_name, old_revision, emitted, announced,
                   tick_kind, interrupted, committed_at_start>>

\* one statement of remove_revision and its commit
Purge(at, tables, next_pc) ==
    /\ pc = at
    /\ db' = tables
    /\ disk' = tables
    /\ pc' = next_pc
    /\ UNCHANGED <<call, committed_revisions, malformed,
                   file_exists, exit_error, delete_old_revisions, upstream,
                   now, revision_name, old_revision, emitted, announced,
                   tick_kind, interrupted, committed_at_start>>
    /\ LocalsUnchanged

\* remove_revision, line 116
RemoveRevisionInfo ==
    Purge("remove_revision", delete_revision_info(db, old_revision),
          "remove_files")

\* remove_revision, line 117
RemoveVersionedFiles ==
    Purge("remove_files",
          delete_versioned_file_infos_with_revision(db, old_revision),
          "remove_wad_files")

\* remove_revision, line 118
RemoveWadFiles ==
    Purge("remove_wad_files",
          delete_wad_file_infos_with_revision(db, old_revision),
          "sleep")

\* update_loop, lines 107-108: the tick is over
Sleep ==
    /\ pc = "sleep"
    /\ pc' = "update_loop"
    /\ revision_name' = NoRevision
    /\ old_revision' = NoRevision
    /\ upstream' = NoContent
    /\ emitted' = <<>>
    /\ tick_kind' = ""
    /\ committed_at_start' = disk
    /\ LocalsCleared
    /\ interrupted' = NotInterrupted
    /\ malformed' = NotMalformed
    /\ UNCHANGED <<call, committed_revisions,
                   file_exists, disk, db, exit_error, delete_old_revisions,
                   now, announced>>

\* the process is killed
Kill ==
    /\ pc # "off"
    /\ Die("killed", disk)
    /\ interrupted' = IF tick_kind = "new" /\ upstream # NoContent
                      THEN [tag |-> revision_name, content |-> upstream]
                      ELSE interrupted
    /\ UNCHANGED <<call, committed_revisions, malformed,
                   file_exists, delete_old_revisions, upstream, now,
                   revision_name, old_revision, emitted, announced,
                   tick_kind, committed_at_start>>

-----------------------------------------------------------------------------

Init ==
    /\ file_exists = FALSE
    /\ disk = EmptyTables
    /\ db = EmptyTables
    /\ pc = "off"
    /\ exit_error = ""
    /\ delete_old_revisions \in BOOLEAN
    /\ upstream = NoContent
    /\ now = 1
    /\ revision_name = NoRevision
    /\ old_revision = NoRevision
    /\ records = <<>>
    /\ new_file_names = <<>>
    /\ last_revision_files = <<>>
    /\ cur = NoRecord
    /\ attempt = 0
    /\ outcome = ""
    /\ journal = <<>>
    /\ ret = ""
    /\ emitted = <<>>
    /\ announced = <<>>
    /\ tick_kind = ""
    /\ interrupted = NotInterrupted
    /\ committed_at_start = EmptyTables
    /\ call = NoCall
    /\ committed_revisions = {}
    /\ malformed = NotMalformed

Next ==
    \/ Start
    \/ InitDb
    \/ FillFetch
    \/ FillRecord
    \/ FillWad
    \/ FillCommit
    \/ JournalAttempt(WebDriverOutcomes)
    \/ TickFail
    \/ TickNoOp
    \/ TickNewRevision
    \/ CheckFiles
    \/ DiffRecord
    \/ DiffWad
    \/ DiffCommit
    \/ DeletedScan
    \/ AddRevision
    \/ RemoveRevisionInfo
    \/ RemoveVersionedFiles
    \/ RemoveWadFiles
    \/ Sleep
    \/ Kill

Spec == Init /\ [][Next]_vars

-----------------------------------------------------------------------------
(* _get_wad_journal on its own, around a callee that can also raise what   *)
(* the loop catches                                                        *)

RetryOutcomes == WebDriverOutcomes \cup Retried

InitRetry ==
    /\ file_exists = TRUE
    /\ disk = EmptyTables
    /\ db = EmptyTables
    /\ pc = "journal"
    /\ exit_error = ""
    /\ delete_old_revisions \in BOOLEAN
    /\ upstream \in {c \in Contents : c.journals["Root.wad"] # <<>>}
    /\ now = 1
    /\ revision_name \in Tags
    /\ old_revision = NoRevision
    /\ records = NonMeta(upstream.manifest)
    /\ new_file_names = <<>>
    /\ last_revision_files = <<>>
    /\ cur = records[1]
    /\ attempt = 0
    /\ outcome = ""
    /\ journal = <<>>
    /\ ret \in {"fill_wad", "diff_wad"}
    /\ emitted = <<>>
    /\ announced = <<>>
    /\ tick_kind = ""
    /\ interrupted = NotInterrupted
    /\ committed_at_start = EmptyTables
    /\ call = NoCall
    /\ committed_revisions = {}
    /\ malformed = NotMalformed

NextRetry == JournalAttempt(RetryOutcomes)

\* every attempt returns or raises, and every sleep ends
SpecRetry == InitRetry /\ [][NextRetry]_vars /\ WF_vars(NextRetry)

-----------------------------------------------------------------------------
(* The notifier started again on the store a kill inside remove_revision   *)
(* leaves behind                                                           *)

\* the store after the first start on r1, whose manifest lists Root.wad
FilledStore ==
    FillWadLoop(
        add_versioned_file_info(add_revision_info(EmptyTables, "r1", 1).db,
                                1, 10, "r1", "Root.wad").db,
        RootJournal(1), "Root.wad", "r1").db

\* ... after the pass for r2, whose manifest lists no file, has committed
\* r2 and remove_revision("r1") has run lines 116 and 117, not yet line 118
InterruptedStore ==
    delete_versioned_file_infos_with_revision(
        delete_revision_info(add_revision_info(FilledStore, "r2", 2).db,
                             "r1"),
        "r1")

InitInterrupted ==
    /\ file_exists = TRUE
    /\ disk = InterruptedStore
    /\ db = InterruptedStore
    /\ pc = "off"
    /\ exit_error = "killed"
    /\ delete_old_revisions = TRUE
    /\ upstream = NoContent
    /\ now = 3
    /\ revision_name = NoRevision
    /\ old_revision = NoRevision
    /\ records = <<>>
    /\ new_file_names = <<>>
    /\ last_revision_files = <<>>
    /\ cur = NoRecord
    /\ attempt = 0
    /\ outcome = ""
    /\ journal = <<>>
    /\ ret = ""
    /\ emitted = <<>>
    /\ announced = <<>>
    /\ tick_kind = ""
    /\ interrupted = NotInterrupted
    /\ committed_at_start = InterruptedStore
    /\ call = NoCall
    /\ committed_revisions = {"r1", "r2"}
    /\ malformed = NotMalformed

\* the store file exists: init_db and _fill_db do not run again
NextInterrupted ==
    \/ Start
    \/ JournalAttempt(WebDriverOutcomes)
    \/ TickFail
    \/ TickNoOp
    \/ TickNewRevision
    \/ CheckFiles
    \/ DiffRecord
    \/ DiffWad
    \/ DiffCommit
    \/ DeletedScan
    \/ AddRevision
    \/ RemoveRevisionInfo
    \/ RemoveVersionedFiles
    \/ RemoveWadFiles
    \/ Sleep
    \/ Kill

SpecInterrupted == InitInterrupted /\ [][NextInterrupted]_vars

-----------------------------------------------------------------------------
(* db.py on its own: the operations of WizDiffDatabase applied, in any     *)
(* order, to small arguments                                               *)

\* calls made on the store over one behaviour
MaxCalls == 3

StoreNames == {"", "a", "b"}
StoreRevisions == {"r1", "r2"}
StoreRevisionNames == {""} \cup StoreRevisions
StoreInts == {-1, 0, 1}
StoreDates == {1, 2}

\* the arguments of a call; one an operation does not take is left as here
NoArgs ==
    [crc |-> 0, size |-> 0, revision |-> "", name |-> "", wad_name |-> "",
     date |-> 0]

\* one call: `result` is what the operation returned on the store `db`
Called(op, args, result) ==
    /\ call.n < MaxCalls
    /\ call' = [op |-> op, n |-> call.n + 1, args |-> args, before |-> db,
                exc |-> result.exc]
    /\ db' = result.db
    /\ UNCHANGED <<file_exists, disk, pc, exit_error, delete_old_revisions,
                   upstream, now, revision_name, old_revision, records,
                   new_file_names, last_revision_files, cur, attempt,
                   outcome, journal, ret, emitted, announced, tick_kind,
                   interrupted, committed_at_start, committed_revisions,
                   malformed>>

StoreAddRevision ==
    \E name \in StoreRevisionNames, date \in StoreDates :
        Called("add_revision_info",
               [NoArgs EXCEPT !.name = name, !.date = date],
               add_revision_info(db, name, date))

StoreDeleteRevision ==
    \E name \in StoreRevisionNames :
        Called("delete_revision_info", [NoArgs EXCEPT !.name = name],
               Ok(delete_revision_info(db, name)))

StoreAddVersionedFile ==
    \E crc \in StoreInts, size \in StoreInts, revision \in StoreRevisions,
       name \in StoreNames :
        Called("add_versioned_file_info",
               [NoArgs EXCEPT !.crc = crc, !.size = size,
                              !.revision = revision, !.name = name],
               add_versioned_file_info(db, crc, size, revision, name))

StoreDeleteVersionedFiles ==
    \E revision \in StoreRevisions :
        Called("delete_versioned_file_infos_with_revision",
               [NoArgs EXCEPT !.revision = revision],
               Ok(delete_versioned_file_infos_with_revision(db, revision)))

StoreAddWadFile ==
    \E crc \in {-1, 1}, size \in {-1, 1}, name \in {"", "a"},
       wad_name \in {"", "W.wad"} :
        Called("add_wad_file_info",
               [NoArgs EXCEPT !.crc = crc, !.size = size, !.revision = "r1",
                              !.name = name, !.wad_name = wad_name],
               add_wad_file_info(db, 0, crc, size, size, FALSE, "r1", name,
                                 wad_name))

StoreDeleteWadFiles ==
    \E revision \in StoreRevisions :
        Called("delete_wad_file_infos_with_revision",
               [NoArgs EXCEPT !.revision = revision],
               Ok(delete_wad_file_infos_with_revision(db, revision)))

\* init_database on a new file
InitStore ==
    /\ file_exists = TRUE
    /\ disk = EmptyTables
    /\ db = EmptyTables
    /\ pc = "store"
    /\ exit_error = ""
    /\ delete_old_revisions = TRUE
    /\ upstream = NoContent
    /\ now = 1
    /\ revision_name = NoRevision
    /\ old_revision = NoRevision
    /\ records = <<>>
    /\ new_file_names = <<>>
    /\ last_revision_files = <<>>
    /\ cur = NoRecord
    /\ attempt = 0
    /\ outcome = ""
    /\ journal = <<>>
    /\ ret = ""
    /\ emitted = <<>>
    /\ announced = <<>>
    /\ tick_kind = ""
    /\ interrupted = NotInterrupted
    /\ committed_at_start = EmptyTables
    /\ call = NoCall
    /\ committed_revisions = {}
    /\ malformed = NotMalformed

NextStore ==
    \/ StoreAddRevision
    \/ StoreDeleteRevision
    \/ StoreAddVersionedFile
    \/ StoreDeleteVersionedFiles
    \/ StoreAddWadFile
    \/ StoreDeleteWadFiles

SpecStore == InitStore /\ [][NextStore]_vars

-----------------------------------------------------------------------------
(* webdriver.py: get_patch_urls over the bytes the directory sent.  Bytes   *)
(* are numbers of 0..255, offsets count from 0 as in the source.            *)

MaxPad == 2

\* b"http"
HTTP == <<104, 116, 116, 112>>

\* the bytes a buffer is padded with: 0x00, 0x05, "x" and 0xFF
PadBytes == {0, 5, 120, 255}

RECURSIVE Padding(_)
Padding(n) ==
    IF n = 0 THEN {<<>>}
    ELSE Padding(n - 1)
         \cup {Append(pad, b) : pad \in Padding(n - 1), b \in PadBytes}

\* the second read of the socket: up to two b"http", with bytes ahead of,
\* between and after them
Buffers ==
    {pre \o first \o mid \o second \o post :
        pre \in Padding(MaxPad), first \in {<<>>, HTTP},
        mid \in Padding(MaxPad), second \in {<<>>, HTTP},
        post \in Padding(1)}

\* data[start:stop]
SliceIndex(i, n) == IF i < 0 THEN (IF i + n < 0 THEN 0 ELSE i + n)
                    ELSE (IF i > n THEN n ELSE i)

Slice(data, start, stop) ==
    LET from == SliceIndex(start, Len(data))
        to   == SliceIndex(stop, Len(data))
    IN  IF to <= from THEN <<>> ELSE SubSeq(data, from + 1, to)

\* the offsets at which sub begins in data
Occurrences(data, sub) ==
    {i \in 0..(Len(data) - Len(sub)) :
        SubSeq(data, i + 1, i + Len(sub)) = sub}

\* data.find(sub) and data.rfind(sub)
find(data, sub) ==
    IF Occurrences(data, sub) = {} THEN -1
    ELSE CHOOSE i \in Occurrences(data, sub) :
             \A j \in Occurrences(data, sub) : i <= j

rfind(data, sub) ==
    IF Occurrences(data, sub) = {} THEN -1
    ELSE CHOOSE i \in Occurrences(data, sub) :
             \A j \in Occurrences(data, sub) : j <= i

\* struct.unpack("<H", b)[0]
unpack_H(b) ==
    IF Len(b) # 2 THEN [exc |-> "struct.error", ret |-> 0]
    ELSE [exc |-> "", ret |-> b[1] + 256 * b[2]]

\* bytes.decode(): the code points of the text; of the bytes in use 0xFF
\* alone is no UTF-8
decode(b) ==
    IF \E i \in 1..Len(b) : b[i] >= 128
    THEN [exc |-> "UnicodeDecodeError", ret |-> <<>>]
    ELSE [exc |-> "", ret |-> b]

\* _read_url, lines 27-33
read_url(data, start) ==
    LET str_len_data == Slice(data, start, start + 2)
        str_len      == unpack_H(str_len_data)
    IN  IF str_len.exc # "" THEN [exc |-> str_len.exc, ret |-> <<>>]
        ELSE decode(Slice(data, start + 2, start + 2 + str_len.ret))

\* get_patch_urls, lines 35-39: -> [exc, file_list_url, base_url]
get_patch_urls(data) ==
    LET file_list_url_start == find(data, HTTP) - 2
        base_url_start      == rfind(data, HTTP) - 2
        file_list_url       == read_url(data, file_list_url_start)
        base_url            == read_url(data, base_url_start)
    IN  IF file_list_url.exc # ""
        THEN [exc |-> file_list_url.exc, file_list_url |-> <<>>,
              base_url |-> <<>>]
        ELSE IF base_url.exc # ""
        THEN [exc |-> base_url.exc, file_list_url |-> <<>>,
              base_url |-> <<>>]
        ELSE [exc |-> "", file_list_url |-> file_list_url.ret,
              base_url |-> base_url.ret]

\* one call of get_patch_urls on the bytes that were read
GetPatchUrls ==
    /\ pc = "get_patch_urls"
    /\ call.op = ""
    /\ LET result == get_patch_urls(call.data)
       IN  call' = [op |-> "get_patch_urls", n |-> 1, data |-> call.data,
                    exc |-> result.exc,
                    file_list_url |-> result.file_list_url,
                    base_url |-> result.base_url]
    /\ UNCHANGED <<file_exists, disk, db, pc, exit_error,
                   delete_old_revisions, upstream, now, revision_name,
                   old_revision, records, new_file_names,
                   last_revision_files, cur, attempt, outcome, journal, ret,
                   emitted, announced, tick_kind, interrupted,
                   committed_at_start, committed_revisions, malformed>>

InitUrls ==
    /\ file_exists = FALSE
    /\ disk = EmptyTables
    /\ db = EmptyTables
    /\ pc = "get_patch_urls"
    /\ exit_error = ""
    /\ delete_old_revisions = FALSE
    /\ upstream = NoContent
    /\ now = 1
    /\ revision_name = NoRevision
    /\ old_revision = NoRevision
    /\ records = <<>>
    /\ new_file_names = <<>>
    /\ last_revision_files = <<>>
    /\ cur = NoRecord
    /\ attempt = 0
    /\ outcome = ""
    /\ journal = <<>>
    /\ ret = ""
    /\ emitted = <<>>
    /\ announced = <<>>
    /\ tick_kind = ""
    /\ interrupted = NotInterrupted
    /\ committed_at_start = EmptyTables
    /\ \E data \in Buffers : call = [op |-> "", n |-> 0, data |-> data]
    /\ committed_revisions = {}
    /\ malformed = NotMalformed

NextUrls == GetPatchUrls

SpecUrls == InitUrls /\ [][NextUrls]_vars

-----------------------------------------------------------------------------
(* dml_parser.py: consume_data over file lists of any structures *)

MaxStructures == 3

\* the tables and the templates a file list may declare: two orders of two
\* fields, and a template with no field
ParsedTables == {"Files", "About"}
ParsedTemplates == {<<"SrcFileName", "CRC">>, <<"CRC", "SrcFileName">>, <<>>}

\* the values a record may hold: as many as the fields, or one short
ParsedValues == {<<1, 2>>, <<2, 1>>, <<1>>}

\* what a file list is made of: templates, records, a structure with a bad
\* marker byte and a structure of an unknown type
Structures ==
    {Structure(MARKER, TEMPLATE, table, fields, <<>>) :
        table \in ParsedTables, fields \in ParsedTemplates}
    \cup {Structure(MARKER, RECORD, "", <<>>, values) :
            values \in ParsedValues}
    \cup {Structure(3, RECORD, "", <<>>, <<1, 2>>),
          Structure(MARKER, 3, "", <<>>, <<>>)}

RECURSIVE FileLists(_)
FileLists(n) ==
    IF n = 0 THEN {<<>>}
    ELSE FileLists(n - 1)
         \cup {Append(body, f) : body \in FileLists(n - 1), f \in Structures}

\* one call of parse_records_from_bytes on the file list that was read
ParseRecords ==
    /\ pc = "parse_records"
    /\ call.op = ""
    /\ LET result == parse_records_from_bytes(call.data)
       IN  call' = [op |-> "parse_records_from_bytes", n |-> 1,
                    data |-> call.data, exc |-> result.exc,
                    records |-> result.records]
    /\ UNCHANGED <<file_exists, disk, db, pc, exit_error,
                   delete_old_revisions, upstream, now, revision_name,
                   old_revision, records, new_file_names,
                   last_revision_files, cur, attempt, outcome, journal, ret,
                   emitted, announced, tick_kind, interrupted,
                   committed_at_start, committed_revisions, malformed>>

InitParse ==
    /\ file_exists = FALSE
    /\ disk = EmptyTables
    /\ db = EmptyTables
    /\ pc = "parse_records"
    /\ exit_error = ""
    /\ delete_old_revisions = FALSE
    /\ upstream = NoContent
    /\ now = 1
    /\ revision_name = NoRevision
    /\ old_revision = NoRevision
    /\ records = <<>>
    /\ new_file_names = <<>>
    /\ last_revision_files = <<>>
    /\ cur = NoRecord
    /\ attempt = 0
    /\ outcome = ""
    /\ journal = <<>>
    /\ ret = ""
    /\ emitted = <<>>
    /\ announced = <<>>
    /\ tick_kind = ""
    /\ interrupted = NotInterrupted
    /\ committed_at_start = EmptyTables
    /\ \E data \in FileLists(MaxStructures) :
         call = [op |-> "", n |-> 0, data |-> data]
    /\ committed_revisions = {}
    /\ malformed = NotMalformed

NextParse == ParseRecords

SpecParse == InitParse /\ [][NextParse]_vars

-----------------------------------------------------------------------------
(* Properties *)

HasRevision(tables, name) ==
    \E i \in 1..Len(tables.RevisionInfo) :
        tables.RevisionInfo[i].revision_name = name

\* the rows of both file tables that carry the tag
TaggedRows(tables, name) ==
    {r \in Range(tables.VersionedFileInfo) : r.revision = name}
    \cup {r \in Range(tables.WadFileInfo) : r.revision = name}

\* the process is in, or died in, a diff pass
InPass == tick_kind = "new"

\* a pass ended by an exception
PassFailed == InPass /\ pc = "off" /\ exit_error \notin {"", "killed"}

\* the pass has run to its end, the purge included
PassDone == InPass /\ pc = "sleep"

\* C1: a tick that finds its revision tag in the store announces nothing,
\* dispatches no delta and changes no row of any table.
C1_NoOpTick ==
    [][(pc = "update_loop" /\ HasRevision(disk, revision_name'))
         => /\ emitted' = emitted
            /\ announced' = announced
            /\ disk' = disk
            /\ db' = db]_vars

\* a tick has found its tag in a store that holds files
C1_Witness ==
    /\ pc = "sleep"
    /\ tick_kind = "noop"
    /\ HasRevision(disk, revision_name)
    /\ disk.VersionedFileInfo # <<>>
    /\ disk.WadFileInfo # <<>>

\* C2: when a diff pass for R ends in an exception, whatever the step, no
\* row tagged R is left in the store, which is as it was before the pass.
C2_FailureAtomicity ==
    (PassFailed /\ TaggedRows(committed_at_start, revision_name) = {})
        => /\ TaggedRows(disk, revision_name) = {}
           /\ disk = committed_at_start

\* C3: a pass for R that a kill ended is run again by the next tick and,
\* upstream being the same, is not stopped by the store.
C3_CrashRecovery ==
    (InPass /\ pc = "off"
       /\ interrupted.tag = revision_name
       /\ interrupted.content = upstream)
        => exit_error # "IntegrityError"

\* what the store held for a manifest record when the pass began
ClassAtStart(r) ==
    LET rows == SelectSeq(committed_at_start.VersionedFileInfo,
                          LAMBDA x : /\ x.revision = old_revision
                                     /\ x.name = r.SrcFileName)
    IN  IF rows = <<>> THEN "new"
        ELSE IF rows[1].crc = r.CRC /\ rows[1].size_ = r.Size
        THEN "unchanged" ELSE "changed"

\* C4: after a pass, the entries of every archive the pass found unchanged
\* are in the store under the new revision, their other fields as before.
C4_RetagPreservesContent ==
    PassDone =>
        \A r \in Range(NonMeta(upstream.manifest)) :
            (EndsWithWad(r.SrcFileName) /\ ClassAtStart(r) = "unchanged")
            => \A row \in Range(committed_at_start.WadFileInfo) :
                 (row.revision = old_revision /\ row.wad_name = r.SrcFileName)
                 => [row EXCEPT !.revision = revision_name]
                        \in Range(disk.WadFileInfo)

\* C5: an exception in a tick does not end the poll loop.
C5_LoopContinues ==
    tick_kind # "" => ~ (pc = "off" /\ exit_error \notin {"", "killed"})

IsRevisionCall(c) == c.hook = "notify_revision_update"

IsDeletedCall(c) ==
    c.delta.type \in {"DeletedFileDelta", "DeletedWadFileDelta"}

\* the calls of notify_all_file_update: one per file delta dispatched
IsFileDelta(c) == c.hook = "notify_all_file_update"

\* place of a name in the manifest's walk (0 if it is not there)
ManifestPlace(name) ==
    LET walk == NonMeta(upstream.manifest)
    IN  IF \E k \in 1..Len(walk) : walk[k].SrcFileName = name
        THEN CHOOSE k \in 1..Len(walk) : walk[k].SrcFileName = name
        ELSE 0

\* the manifest's walk lists the first name at a place before one of the
\* second name
ListedBefore(first, second) ==
    LET walk == NonMeta(upstream.manifest)
    IN  \E p, q \in 1..Len(walk) :
          /\ p < q
          /\ walk[p].SrcFileName = first
          /\ walk[q].SrcFileName = second

\* C6: in a diff pass for R the first hook call is notify_revision_update
\* with R and there is no other; the created and changed deltas follow in
\* the manifest's order, and every deleted delta comes after all of them.
C6_EmissionOrder ==
    InPass =>
        /\ emitted # <<>> => emitted[1] = RevisionCall(revision_name)
        /\ \A i \in 1..Len(emitted) : IsRevisionCall(emitted[i]) => i = 1
        /\ \A i, j \in 1..Len(emitted) :
             (i < j /\ IsDeletedCall(emitted[i])) => IsDeletedCall(emitted[j])
        /\ \A i, j \in 1..Len(emitted) :
             (/\ i < j
              /\ IsFileDelta(emitted[i]) /\ ~ IsDeletedCall(emitted[i])
              /\ IsFileDelta(emitted[j]) /\ ~ IsDeletedCall(emitted[j]))
             => ListedBefore(emitted[i].delta.name, emitted[j].delta.name)

\* a pass has announced its revision, dispatched a created or changed delta
\* and then a deleted one
C6_Witness ==
    /\ InPass
    /\ emitted # <<>>
    /\ IsRevisionCall(emitted[1])
    /\ \E i, k \in 2..Len(emitted) :
         /\ i < k
         /\ IsFileDelta(emitted[i]) /\ ~ IsDeletedCall(emitted[i])
         /\ IsFileDelta(emitted[k]) /\ IsDeletedCall(emitted[k])

\* C7: once add_revision(R) has committed, the pass has nothing left to
\* walk or scan and dispatches no further hook call.
C7_DeltasBeforeRevision ==
    /\ []((InPass /\ HasRevision(disk, revision_name))
            => /\ records = <<>>
               /\ last_revision_files = <<>>
               /\ pc \in {"remove_revision", "remove_files",
                          "remove_wad_files", "sleep", "off"})
    /\ [][(InPass /\ tick_kind' = "new" /\ HasRevision(disk, revision_name))
            => emitted' = emitted]_vars

\* R is committed after a pass that dispatched file deltas, a deleted one
\* among them
C7_Witness ==
    /\ InPass
    /\ HasRevision(disk, revision_name)
    /\ \E i, k \in 1..Len(emitted) :
         /\ IsFileDelta(emitted[i]) /\ ~ IsDeletedCall(emitted[i])
         /\ IsDeletedCall(emitted[k])

\* calls of `hooks` the pass made for a created or changed file of that name
CallsFor(name, hooks) ==
    Cardinality({i \in 1..Len(emitted) :
                    /\ emitted[i].hook \in hooks
                    /\ ~ IsDeletedCall(emitted[i])
                    /\ emitted[i].delta.name = name})

\* the pass is past the manifest fetch and alive
Walking ==
    /\ InPass
    /\ pc \in {"diff", "journal", "diff_wad", "deleted", "remove_revision",
               "remove_files", "remove_wad_files", "sleep"}

\* C8: every non-meta record the pass has walked is new, changed or
\* unchanged against the old revision; a new one got exactly one created
\* delta, a changed one exactly one changed delta (each to both hooks of
\* its kind), an unchanged one none; a record not yet walked got none.
C8_Classification ==
    Walking =>
        LET walk == NonMeta(upstream.manifest)
            done == Len(walk) - Len(records)
        IN  \A k \in 1..Len(walk) :
              LET r   == walk[k]
                  cls == ClassAtStart(r)
                  typed == IF EndsWithWad(r.SrcFileName)
                           THEN "notify_wad_file_update"
                           ELSE "notify_non_wad_file_update"
                  n   == Cardinality(
                             {w \in 1..done :
                                /\ walk[w].SrcFileName = r.SrcFileName
                                /\ ClassAtStart(walk[w]) # "unchanged"})
              IN  /\ CallsFor(r.SrcFileName, {"notify_all_file_update"}) = n
                  /\ CallsFor(r.SrcFileName, {typed}) = n
                  /\ CallsFor(r.SrcFileName,
                              {"notify_wad_file_update",
                               "notify_non_wad_file_update"} \ {typed}) = 0
                  /\ \A i \in 1..Len(emitted) :
                       (/\ ~ IsRevisionCall(emitted[i])
                        /\ ~ IsDeletedCall(emitted[i])
                        /\ emitted[i].delta.name = r.SrcFileName)
                       => emitted[i].delta.type
                            \in (IF cls = "new"
                                 THEN {"CreatedFileDelta",
                                       "CreatedWadFileDelta"}
                                 ELSE {"ChangedFileDelta",
                                       "ChangedWadfileDelta"})

\* a pass has walked a manifest with an unchanged archive and a plain file
\* that changed, and dispatched the one delta
C8_Witness ==
    /\ PassDone
    /\ \E r1, r2 \in Range(NonMeta(upstream.manifest)) :
         /\ ClassAtStart(r1) = "changed"
         /\ ~ EndsWithWad(r1.SrcFileName)
         /\ ClassAtStart(r2) = "unchanged"
         /\ CallsFor(r1.SrcFileName, {"notify_all_file_update"}) = 1

\* deleted deltas the pass dispatched for that name
DeletedFor(name) ==
    Cardinality({i \in 1..Len(emitted) :
                    /\ IsFileDelta(emitted[i])
                    /\ IsDeletedCall(emitted[i])
                    /\ emitted[i].delta.name = name})

\* the pass is in or past the deletion scan and alive
Scanning ==
    /\ InPass
    /\ pc \in {"deleted", "remove_revision", "remove_files",
               "remove_wad_files", "sleep"}

\* C9: every file the store held under the old revision that the scan has
\* reached got exactly one deleted delta if the new manifest lacks its name
\* and none if the manifest has it; no other name got a deleted delta.
C9_SymmetricDeletion ==
    Scanning =>
        LET old   == SelectSeq(committed_at_start.VersionedFileInfo,
                               LAMBDA x : x.revision = old_revision)
            done  == Len(old) - Len(last_revision_files)
        IN  /\ \A k \in 1..Len(old) :
                 DeletedFor(old[k].name) =
                    IF k <= done /\ ManifestPlace(old[k].name) = 0
                    THEN 1 ELSE 0
            /\ \A i \in 1..Len(emitted) :
                 IsDeletedCall(emitted[i])
                 => \E k \in 1..Len(old) : old[k].name = emitted[i].delta.name

\* a pass has scanned an old revision with a file the manifest lacks and a
\* file the manifest has
C9_Witness ==
    /\ PassDone
    /\ \E x, y \in Range(committed_at_start.VersionedFileInfo) :
         /\ x.revision = old_revision /\ y.revision = old_revision
         /\ ManifestPlace(x.name) = 0
         /\ ManifestPlace(y.name) # 0
         /\ DeletedFor(x.name) = 1

\* C10: a journal fetch makes at most JOURNAL_RETRIES attempts; an attempt
\* that succeeds returns its journal at once; the fetch raises ValueError
\* only after JOURNAL_RETRIES attempts that all failed; and it ends.
C10_RetryBound ==
    /\ [](attempt <= JOURNAL_RETRIES)
    /\ [](outcome = "ok"
            => /\ pc = ret
               /\ journal = upstream.journals[cur.SrcFileName])
    /\ [](pc = "journal" => outcome \in Retried \cup {""})
    /\ []((pc = "off" /\ exit_error = "ValueError")
            => attempt = JOURNAL_RETRIES /\ outcome \in Retried)
    /\ <>(pc # "journal")

\* the fetch has given up after its last attempt
C10_Witness ==
    /\ pc = "off"
    /\ exit_error = "ValueError"
    /\ attempt = JOURNAL_RETRIES

\* the crc and the size the classifier is asked about: every stored value
\* and a value off each
QueryCrcs == {-1, 0, 1}
QuerySizes == {0, 1}

\* the rows of VersionedFileInfo under a primary key
RowsAt(tables, revision, name) ==
    {r \in Range(tables.VersionedFileInfo) :
        r.revision = revision /\ r.name = name}

\* C15: check_if_versioned_file_updated(crc, size, revision, name) is new
\* iff the store has no row for (revision, name), unchanged iff the row has
\* that crc and that size, changed iff it has a row and crc or size differ,
\* a stored 0 being a value like any other; after an insert of (c, s, r, n)
\* into an empty store (c, s, r, n) is unchanged, (c+1, s, r, n) and
\* (c, s+1, r, n) are changed and any other name is new.
C15_Classifier ==
    /\ \A crc \in QueryCrcs, size \in QuerySizes,
          revision \in StoreRevisions, name \in StoreNames :
          LET rows == RowsAt(db, revision, name)
              res  == check_if_versioned_file_updated(
                          db, crc, size, revision, name).res
          IN  /\ res \in {"new", "changed", "unchanged"}
              /\ res = "new" <=> rows = {}
              /\ res = "unchanged"
                   <=> \E r \in rows : r.crc = crc /\ r.size_ = size
              /\ res = "changed"
                   <=> \E r \in rows : r.crc # crc \/ r.size_ # size
    /\ (/\ call.op = "add_versioned_file_info"
        /\ call.before = EmptyTables
        /\ call.exc = "")
       => LET a == call.args
              q(crc, size, name) ==
                  check_if_versioned_file_updated(
                      db, crc, size, a.revision, name).res
          IN  /\ q(a.crc, a.size, a.name) = "unchanged"
              /\ q(a.crc + 1, a.size, a.name) = "changed"
              /\ q(a.crc, a.size + 1, a.name) = "changed"
              /\ \A name \in StoreNames \ {a.name} :
                   q(a.crc, a.size, name) = "new"

\* a row with crc 0 and size 0 has been put into an empty store
C15_Witness ==
    /\ call.op = "add_versioned_file_info"
    /\ call.before = EmptyTables
    /\ call.exc = ""
    /\ call.args.crc = 0
    /\ call.args.size = 0
    /\ RowsAt(db, call.args.revision, call.args.name) # {}

\* C16: add_versioned_file_info with a negative size or an empty name, and
\* add_wad_file_info with a negative size, an empty name or an empty archive
\* name, raise ValueError and insert nothing; ValueError is raised only for
\* a negative crc, a negative size or an empty name; every stored row has
\* size >= 0 and non-empty names.
C16_RowValidation ==
    /\ call.op = "add_versioned_file_info"
       => LET a == call.args
          IN  /\ (a.size < 0 \/ a.name = "")
                   => (call.exc = "ValueError" /\ db = call.before)
              /\ call.exc = "ValueError"
                   => (a.crc < 0 \/ a.size < 0 \/ a.name = "")
    /\ call.op = "add_wad_file_info"
       => LET a == call.args
          IN  /\ (a.size < 0 \/ a.name = "" \/ a.wad_name = "")
                   => (call.exc = "ValueError" /\ db = call.before)
              /\ call.exc = "ValueError"
                   => (a.crc < 0 \/ a.size < 0 \/ a.name = ""
                       \/ a.wad_name = "")
    /\ \A r \in Range(db.VersionedFileInfo) : r.size_ >= 0 /\ r.name # ""
    /\ \A r \in Range(db.WadFileInfo) :
          r.size_ >= 0 /\ r.name # "" /\ r.wad_name # ""

\* a store that holds a row has refused a row for its empty name alone
C16_Witness ==
    /\ call.op = "add_versioned_file_info"
    /\ call.exc = "ValueError"
    /\ call.args.size >= 0
    /\ call.args.crc >= 0
    /\ call.args.name = ""
    /\ db.VersionedFileInfo # <<>>

BadResponses == {"http_error", "bad_gzip"}

\* C11: when the fetch of an archive's journal gets an HTTP error response
\* or a body that fails gzip decoding on an attempt before the last, the
\* pass is not ended by that attempt: the fetch is still in its retry loop.
C11_RetryTrigger ==
    \A r \in BadResponses :
        (/\ attempt \in 1..(JOURNAL_RETRIES - 1)
         /\ outcome = get_wad_journal_crcs(r))
        => (pc = "journal" /\ exit_error = "")

\* every WadFileInfo row of the tables has the VersionedFileInfo row of its
\* archive under the same revision
NoOrphans(tables) ==
    \A row \in Range(tables.WadFileInfo) :
        \E v \in Range(tables.VersionedFileInfo) :
            v.revision = row.revision /\ v.name = row.wad_name

\* C13: in every committed state of the store, for every WadFileInfo row
\* there is a VersionedFileInfo row with the same revision whose name is the
\* row's wad_name: after the first fill, after every pass and at every
\* commit inside remove_revision.
C13_NoOrphans == NoOrphans(disk)

\* the VersionedFileInfo row a manifest record stands for under the tag
RowOf(r, tag) ==
    [crc |-> r.CRC, size_ |-> r.Size, revision |-> tag, name |-> r.SrcFileName]

\* positions of the VersionedFileInfo rows of the tables that carry the tag
TaggedAt(tables, tag) ==
    {i \in 1..Len(tables.VersionedFileInfo) :
        tables.VersionedFileInfo[i].revision = tag}

UniqueKeys(tables) ==
    /\ \A i, j \in 1..Len(tables.RevisionInfo) :
         tables.RevisionInfo[i].revision_name
           = tables.RevisionInfo[j].revision_name => i = j
    /\ \A i, j \in 1..Len(tables.VersionedFileInfo) :
         (/\ tables.VersionedFileInfo[i].revision
               = tables.VersionedFileInfo[j].revision
          /\ tables.VersionedFileInfo[i].name
               = tables.VersionedFileInfo[j].name) => i = j
    /\ \A i, j \in 1..Len(tables.WadFileInfo) :
         (/\ tables.WadFileInfo[i].revision = tables.WadFileInfo[j].revision
          /\ tables.WadFileInfo[i].name = tables.WadFileInfo[j].name
          /\ tables.WadFileInfo[i].wad_name = tables.WadFileInfo[j].wad_name)
         => i = j

\* the manifest lists a SrcFileName of its tables other than the meta tables
\* more than once
ListsTwice(manifest) ==
    \E i, j \in 1..Len(NonMeta(manifest)) :
        /\ i # j
        /\ NonMeta(manifest)[i].SrcFileName = NonMeta(manifest)[j].SrcFileName

\* the crc and size a second insert is tried with
InsertInts == {0, 1, 2, 5, 7}

\* C14: add_versioned_file_info for a (revision, name) that has a row, and
\* add_wad_file_info for a (revision, name, wad_name) that has a row, fail
\* with an error and leave the store as it was; no table ever holds two rows
\* under one primary key; a pass over a manifest that lists a SrcFileName
\* twice ends in an error, the row of the first listing never replaced.
C14_PrimaryKeys ==
    /\ UniqueKeys(db)
    /\ UniqueKeys(disk)
    /\ \A row \in Range(db.VersionedFileInfo) :
         \A crc \in InsertInts, size \in InsertInts :
            LET ins == add_versioned_file_info(db, crc, size,
                                               row.revision, row.name)
            IN  ins.exc = "IntegrityError" /\ ins.db = db
    /\ \A row \in Range(db.WadFileInfo) :
         \A crc \in InsertInts, size \in InsertInts :
            LET ins == add_wad_file_info(db, 0, crc, size, size, FALSE,
                                         row.revision, row.name, row.wad_name)
            IN  ins.exc = "IntegrityError" /\ ins.db = db
    /\ (InPass /\ ListsTwice(upstream.manifest))
       => /\ pc \in {"check_files", "diff", "off"}
          /\ pc = "diff" =>
               \A k \in 1..(Len(NonMeta(upstream.manifest)) - Len(records)) :
                  \A row \in Range(db.VersionedFileInfo) :
                     (/\ row.revision = revision_name
                      /\ row.name = NonMeta(upstream.manifest)[k].SrcFileName)
                     => \E f \in 1..k :
                          /\ row = RowOf(NonMeta(upstream.manifest)[f],
                                         revision_name)
                          /\ \A g \in 1..(f - 1) :
                               NonMeta(upstream.manifest)[g].SrcFileName
                                 # row.name
          /\ pc = "off" => disk = committed_at_start

\* a pass over a manifest that lists notes.txt twice, begun with no row
\* under the new tag, was ended by the second insert
C14_Witness ==
    /\ InPass
    /\ ListsTwice(upstream.manifest)
    /\ TaggedRows(committed_at_start, revision_name) = {}
    /\ pc = "off"
    /\ exit_error = "IntegrityError"

\* every row of both file tables carries the latest revision of the tables
SingleRevision(tables) ==
    /\ \A r \in Range(tables.VersionedFileInfo) :
         r.revision = get_latest_revision(tables)
    /\ \A r \in Range(tables.WadFileInfo) :
         r.revision = get_latest_revision(tables)

Announcing(tag) ==
    /\ tick_kind = "new"
    /\ revision_name = tag
    /\ pc = "check_files"

\* C19: a revision goes from unknown to discovered to committed to purged
\* and never back: a revision that add_revision has once committed, whether
\* it was purged since or not, is not announced as new, diffed or committed
\* on any later tick, whatever the directory advertises.
C19_Lifecycle ==
    \A tag \in committed_revisions : ~ Announcing(tag)

\* the store is the one of the first start on r1 followed by a pass for r2
\* that was killed inside remove_revision
AtInterruptedStore ==
    /\ pc = "off"
    /\ exit_error = "killed"
    /\ delete_old_revisions
    /\ disk = InterruptedStore

\* C18: in no pass over a store that was once filled does the diff of an
\* archive the store does not hold under the old revision find changed or
\* deleted entries: the step that diffs an archive never ends in the
\* RuntimeError of lines 215-241.
C18_NewArchive ==
    [][pc = "diff_wad" => exit_error' # "RuntimeError"]_vars

\* the WadFileInfo rows the store held for the archive under the old
\* revision when the pass began
OldEntries(wad_name) ==
    SelectSeq(committed_at_start.WadFileInfo,
              LAMBDA r : r.revision = old_revision /\ r.wad_name = wad_name)

\* C21: the DeletedWadFileDelta dispatched for an archive the store holds
\* under the old revision and the new manifest lacks lists, in
\* deleted_inner_files, one entry for each WadFileInfo row the store holds
\* for that archive under the old revision, with the row's crc and size as
\* old_crc and old_size and with crc = size = 0.
C21_DeletedArchiveDelta ==
    InPass =>
        \A i \in 1..Len(emitted) :
            emitted[i].delta.type = "DeletedWadFileDelta"
            => LET listed == emitted[i].delta.deleted_inner_files
                   rows   == OldEntries(emitted[i].delta.name)
               IN  /\ Len(listed) = Len(rows)
                   /\ \A k \in 1..Len(rows) :
                        \E e \in Range(listed) :
                           /\ e.name = rows[k].name
                           /\ e.wad_name = rows[k].wad_name
                           /\ e.old_crc = rows[k].crc
                           /\ e.old_size = rows[k].size_
                           /\ e.crc = 0
                           /\ e.size = 0

\* C22: a pass for a tag the store lacks, begun while get_latest_revision
\* returns None, ends in an error before any VersionedFileInfo or
\* WadFileInfo row is inserted, and the tag is not added to RevisionInfo.
C22_MissingOldRevision ==
    (InPass /\ get_latest_revision(committed_at_start) = NoRevision)
    => /\ pc \in {"check_files", "off"}
       /\ pc = "off" => exit_error # ""
       /\ db = committed_at_start
       /\ disk = committed_at_start
       /\ ~ HasRevision(disk, revision_name)

\* such a pass has fetched its manifest and was ended by the check of the
\* old revision
C22_Witness ==
    /\ InPass
    /\ get_latest_revision(committed_at_start) = NoRevision
    /\ announced # <<>>
    /\ upstream # NoContent
    /\ pc = "off"
    /\ exit_error = "ValueError"

\* C23: a file list with a structure whose marker byte is not 0x02 makes the
\* parse raise; the process that fetched it for a diff pass ends with that
\* error and with the store as the pass found it, without a revision row for
\* the tag; a later pass for the tag that runs to its end has the tag in the
\* revision table.
C23_MalformedManifest ==
    /\ malformed.live
       => /\ pc = "off"
          /\ exit_error = "RuntimeError"
          /\ db = committed_at_start
          /\ disk = committed_at_start
          /\ ~ HasRevision(disk, malformed.tag)
    /\ (PassDone /\ malformed.tag = revision_name /\ ~ malformed.live)
       => /\ HasRevision(disk, revision_name)
          /\ emitted[1] = RevisionCall(revision_name)

\* a pass for r2 has ended on a malformed file list, the process was started
\* again, and its pass for r2 has run to its end and committed
C23_Witness ==
    /\ PassDone
    /\ malformed = [tag |-> revision_name, live |-> FALSE]
    /\ announced = <<revision_name, revision_name>>
    /\ HasRevision(disk, revision_name)
    /\ TaggedRows(disk, revision_name) # {}

\* the call of get_patch_urls has returned or raised
UrlsRead == pc = "get_patch_urls" /\ call.op = "get_patch_urls"

\* the bytes hold no b"http"
NoMarker(data) == find(data, HTTP) = -1

\* a url of the bytes has a length prefix that reaches past their end
PrefixPastEnd(data) ==
    \E at \in {find(data, HTTP), rfind(data, HTTP)} :
        /\ at >= 2
        /\ at + data[at - 1] + 256 * data[at] > Len(data)

\* C24: get_patch_urls raises whenever the bytes hold no http marker, or the
\* 16-bit length prefix of a url reaches past the end of the bytes.
C24_DirectoryErrors ==
    (UrlsRead /\ (NoMarker(call.data) \/ PrefixPastEnd(call.data)))
    => call.exc # ""

\* the inner entries a delta carries
InnerEntries(delta) ==
    Range(delta.deleted_inner_files) \cup Range(delta.created_inner_files)
    \cup Range(delta.changed_inner_files)

WadDeltaTypes ==
    {"ChangedWadfileDelta", "CreatedWadFileDelta", "DeletedWadFileDelta"}

\* C25: in a diff pass every inner entry that is reported travels inside a
\* delta of an archive, dispatched to the hooks of files, and that delta's
\* name is the entry's wad_name; no hook is called with an entry alone.
C25_ArchiveContainment ==
    InPass =>
        \A i \in 1..Len(emitted) :
            /\ emitted[i].delta.type
                   \in WadDeltaTypes \cup {"Revision", "ChangedFileDelta",
                                           "CreatedFileDelta",
                                           "DeletedFileDelta"}
            /\ \A e \in InnerEntries(emitted[i].delta) :
                 /\ emitted[i].delta.type \in WadDeltaTypes
                 /\ emitted[i].hook \in {"notify_all_file_update",
                                         "notify_wad_file_update"}
                 /\ EndsWithWad(emitted[i].delta.name)
                 /\ e.wad_name = emitted[i].delta.name
                 /\ emitted[i].delta.revision = revision_name

\* a pass has dispatched the delta of a changed archive with an entry that
\* was created and one that was changed
C25_Witness ==
    /\ InPass
    /\ \E i \in 1..Len(emitted) :
         /\ emitted[i].delta.type = "ChangedWadfileDelta"
         /\ emitted[i].delta.created_inner_files # <<>>
         /\ emitted[i].delta.changed_inner_files # <<>>

\* the rows the store held, when the pass began, for an entry of an archive
\* under the old revision
OldEntryRows(name, wad_name) ==
    SelectSeq(committed_at_start.WadFileInfo,
              LAMBDA r : /\ r.revision = old_revision
                         /\ r.name = name
                         /\ r.wad_name = wad_name)

\* an entry of a journal against the store as it was when the pass began
EntryClassAtStart(e, wad_name) ==
    LET rows == OldEntryRows(e.name, wad_name)
    IN  IF rows = <<>> THEN "new"
        ELSE IF rows[1].crc # e.crc \/ rows[1].size_ # e.size THEN "changed"
        ELSE "unchanged"

\* the entries of a journal of one class
EntriesOfClass(jrnl, wad_name, class) ==
    SelectSeq(jrnl, LAMBDA e : EntryClassAtStart(e, wad_name) = class)

\* the entries a list of a delta reports are those of the journal, in order
Reports(listed, entries, wad_name) ==
    /\ Len(listed) = Len(entries)
    /\ \A k \in 1..Len(entries) :
         /\ k <= Len(listed)
         /\ listed[k].name = entries[k].name
         /\ listed[k].wad_name = wad_name
         /\ listed[k].crc = entries[k].crc
         /\ listed[k].size = entries[k].size

\* the rows of the store for an archive under a revision
ArchiveRows(tables, wad_name, revision) ==
    SelectSeq(tables.WadFileInfo,
              LAMBDA r : r.revision = revision /\ r.wad_name = wad_name)

\* a call that carries the delta of an archive the manifest lists
IsListedWadCall(c) ==
    /\ c.hook = "notify_wad_file_update"
    /\ c.delta.type \in {"ChangedWadfileDelta", "CreatedWadFileDelta"}

JournalNames(jrnl) == {jrnl[k].name : k \in 1..Len(jrnl)}

\* C27: the delta of a changed archive lists in deleted_inner_files the
\* entries the store held for the archive under the old revision whose name
\* the new journal lacks, each once, and no entry the journal names.
C27_ArchiveDeletedList ==
    InPass =>
        \A i \in 1..Len(emitted) :
            emitted[i].delta.type = "ChangedWadfileDelta"
            => LET d      == emitted[i].delta
                   names  == JournalNames(upstream.journals[d.name])
                   gone   == SelectSeq(OldEntries(d.name),
                                       LAMBDA r : r.name \notin names)
                   listed == d.deleted_inner_files
               IN  /\ Len(listed) = Len(gone)
                   /\ \A k \in 1..Len(gone) :
                        \E e \in Range(listed) :
                           /\ e.name = gone[k].name
                           /\ e.old_crc = gone[k].crc
                           /\ e.old_size = gone[k].size_
                   /\ \A e \in Range(listed) : e.name \notin names

\* the row the store held for a file under the old revision when the pass
\* began
OldFileRows(name) ==
    SelectSeq(committed_at_start.VersionedFileInfo,
              LAMBDA r : r.revision = old_revision /\ r.name = name)

\* the entries an archive had in the revision that precedes the pass: those
\* of the journal the server publishes with the archive the store holds
\* under the old revision
PrecedingEntries(wad_name) ==
    IF OldFileRows(wad_name) = <<>> THEN <<>>
    ELSE RootJournal(OldFileRows(wad_name)[1].crc)

\* C28: when an archive changes, whatever the number of revisions that left
\* it unchanged before, its delta reports an entry created only if the
\* archive had no entry of that name in the revision that precedes the
\* pass, and reports an entry that was there with another crc or size as
\* changed, with the crc and size it had.
C28_InnerHistory ==
    InPass =>
        \A i \in 1..Len(emitted) :
            emitted[i].delta.type = "ChangedWadfileDelta"
            => LET d    == emitted[i].delta
                   prev == PrecedingEntries(d.name)
                   jrnl == upstream.journals[d.name]
               IN  /\ \A e \in Range(d.created_inner_files) :
                        e.name \notin JournalNames(prev)
                   /\ \A k \in 1..Len(jrnl), p \in 1..Len(prev) :
                        (/\ jrnl[k].name = prev[p].name
                         /\ \/ jrnl[k].crc # prev[p].crc
                            \/ jrnl[k].size # prev[p].size)
                        => \E e \in Range(d.changed_inner_files) :
                              /\ e.name = jrnl[k].name
                              /\ e.old_crc = prev[p].crc
                              /\ e.old_size = prev[p].size

\* C29: over all ticks of all runs of the process, those whose pass failed
\* and was run again included, notify_revision_update is called at most
\* once with each revision.
C29_AnnounceOnce ==
    \A i, j \in 1..Len(announced) : announced[i] = announced[j] => i = j

\* the VersionedFileInfo rows of the tables under a revision
FileRows(tables, revision) ==
    SelectSeq(tables.VersionedFileInfo, LAMBDA r : r.revision = revision)

\* C30: when the process has ended, by a failure or a kill in the first fill
\* or in a diff pass included, the committed store has the revision whose
\* manifest the process fetched only if its VersionedFileInfo rows under
\* that revision are the manifest's records, one row each.
C30_CommittedInventory ==
    (pc = "off" /\ upstream # NoContent /\ HasRevision(disk, revision_name))
    => LET walk == NonMeta(upstream.manifest)
           rows == FileRows(disk, revision_name)
       IN  /\ Len(rows) = Len(walk)
           /\ \A k \in 1..Len(walk) :
                \E r \in Range(rows) :
                   /\ r.name = walk[k].SrcFileName
                   /\ r.crc = walk[k].CRC
                   /\ r.size_ = walk[k].Size

\* the hook of a file's kind
KindHook(delta) ==
    IF EndsWithWad(delta.name) THEN "notify_wad_file_update"
                               ELSE "notify_non_wad_file_update"

\* C31: in a diff pass the calls after notify_revision_update come in
\* pairs, one pair per file delta: notify_all_file_update with the delta,
\* then with the same delta notify_wad_file_update if the file's name ends
\* in .wad and notify_non_wad_file_update if not; deltas of archives go to
\* the former only, deltas of plain files to the latter only, and no delta
\* is dispatched twice.  A pair is cut short only by a hook that raised.
C31_HookDispatch ==
    InPass =>
        /\ \A i \in 2..Len(emitted) :
             IF i % 2 = 0
             THEN /\ emitted[i].hook = "notify_all_file_update"
                  /\ \/ i < Len(emitted)
                     \/ pc = "off" /\ exit_error = "HookError"
             ELSE /\ emitted[i].hook = KindHook(emitted[i].delta)
                  /\ emitted[i].delta = emitted[i - 1].delta
                  /\ emitted[i].hook = "notify_wad_file_update"
                     <=> emitted[i].delta.type \in WadDeltaTypes
                  /\ emitted[i].hook = "notify_non_wad_file_update"
                     <=> emitted[i].delta.type
                            \in {"ChangedFileDelta", "CreatedFileDelta",
                                 "DeletedFileDelta"}
        /\ \A i, j \in 2..Len(emitted) :
             (emitted[i].hook = emitted[j].hook
              /\ emitted[i].delta = emitted[j].delta) => i = j

\* a pass is over that dispatched the delta of an archive the manifest
\* lists and the delta of a plain file the manifest lacks
C31_Witness ==
    /\ PassDone
    /\ \E i, k \in 2..Len(emitted) :
         /\ emitted[i].hook = "notify_wad_file_update"
         /\ ~ IsDeletedCall(emitted[i])
         /\ emitted[k].hook = "notify_non_wad_file_update"
         /\ IsDeletedCall(emitted[k])

\* C32: every file delta dispatched in the diff pass for a revision, those
\* of deleted files and deleted archives included, carries that revision.
C32_DeltaRevision ==
    InPass =>
        \A i \in 1..Len(emitted) :
            ~ IsRevisionCall(emitted[i])
            => emitted[i].delta.revision = revision_name

\* the call of parse_records_from_bytes has returned or raised
Parsed == pc = "parse_records" /\ call.op = "parse_records_from_bytes"

\* the places of the file list that hold a template ahead of place k
TemplatesBefore(body, k) == {t \in 1..(k - 1) : body[t].type = TEMPLATE}

\* the template seen last ahead of place k
LastTemplate(body, k) ==
    body[CHOOSE t \in TemplatesBefore(body, k) :
             \A u \in TemplatesBefore(body, k) : u <= t]

\* the places of the file list that hold a record
RecordPlaces(body) == {k \in 1..Len(body) : body[k].type = RECORD}

\* a file list of templates and records alone, with the marker byte right
\* and with a value for every field of the template a record follows
WellFormed(body) ==
    /\ \A k \in 1..Len(body) :
         body[k].marker = MARKER /\ body[k].type \in {TEMPLATE, RECORD}
    /\ \A k \in RecordPlaces(body) :
         TemplatesBefore(body, k) # {}
         => Len(body[k].values) >= Len(LastTemplate(body, k).fields)

\* a record comes ahead of every template
RecordBeforeTemplate(body) ==
    \E k \in RecordPlaces(body) : TemplatesBefore(body, k) = {}

\* the record at place k, decoded against the template seen last: the n-th
\* value under the name of the template's n-th field
Decoded(body, k) ==
    LET template == LastTemplate(body, k)
    IN  [table_name |-> template.table,
         record |-> [name \in Range(template.fields) |->
                        body[k].values[CHOOSE n \in 1..Len(template.fields) :
                                           template.fields[n] = name]]]

\* C33: the parse of a file list decodes each record against the template
\* seen last and appends it to that template's table; a record ahead of
\* every template makes the parse raise and yields no record.
C33_TemplateState ==
    (Parsed /\ WellFormed(call.data))
    => IF RecordBeforeTemplate(call.data)
       THEN call.exc # "" /\ call.records = <<>>
       ELSE /\ call.exc = ""
            /\ Len(call.records) = Cardinality(RecordPlaces(call.data))
            /\ \A k \in RecordPlaces(call.data) :
                 \E n \in 1..Len(call.records) :
                    call.records[n] = Decoded(call.data, k)

=============================================================================
